---- MODULE Spec2Model ----
(***************************************************************************)
(* A model of memcp's persistence core: the write-through MemoryCache     *)
(* (one instance per tool object), the files it reads and writes, the     *)
(* leaf documents and the SQLite search index (FTS table + metadata       *)
(* table).                                                                *)
(*                                                                        *)
(* Text (a CSV file, a tags column) is a sequence of one-character        *)
(* strings, so that joining, splitting, trimming and JSON encoding are    *)
(* computed, not assumed.                                                 *)
(***************************************************************************)
EXTENDS Integers, Sequences, FiniteSets, TLC

VARIABLES
    disk,     \* ia-memory/: main.sjson, links/<ctx>.csv, submemories/...
    cache,    \* the MemoryCache of every tool object
    calls,    \* link writes in flight (each an async call of LinksTools)
    docs,     \* memories/<ctx>/<sub>/<file>.md
    fts,      \* the FTS5 table memory_index: how many rows hold each content
    meta,     \* rows of the table memory_metadata, keyed by path
    clock,    \* the system clock read by new Date()
    result    \* what the last operation returned

vars == <<disk, cache, calls, docs, fts, meta, clock, result>>

----------------------------------------------------------------------------
(* Bounds of the model *)

MaxLinks == 2        \* links of one context
MaxClock == 1        \* seconds the clock advances
NumCalls == 2        \* link calls that overlap
MaxFtsRows == 2      \* rows of memory_index

----------------------------------------------------------------------------
(* Text helpers: JavaScript's String.prototype.trim / split / Array.join  *)

IsSpace(ch) == ch \in {" ", "\n"}

RECURSIVE TrimLeft(_)
TrimLeft(s) ==
    IF s # <<>> /\ IsSpace(Head(s)) THEN TrimLeft(Tail(s)) ELSE s

RECURSIVE TrimRight(_)
TrimRight(s) ==
    IF s # <<>> /\ IsSpace(s[Len(s)]) THEN TrimRight(SubSeq(s, 1, Len(s) - 1))
    ELSE s

Trim(s) == TrimRight(TrimLeft(s))

\* s.split(sep) for a one-character separator: "" splits to [""].
RECURSIVE Split(_, _)
Split(s, sep) ==
    IF \E i \in 1..Len(s) : s[i] = sep
    THEN LET i == CHOOSE k \in 1..Len(s) :
                    s[k] = sep /\ \A j \in 1..(k - 1) : s[j] # sep
         IN  <<SubSeq(s, 1, i - 1)>> \o Split(SubSeq(s, i + 1, Len(s)), sep)
    ELSE <<s>>

\* parts.join(sep), sep a text
RECURSIVE Join(_, _)
Join(parts, sep) ==
    IF parts = <<>> THEN <<>>
    ELSE IF Len(parts) = 1 THEN parts[1]
    ELSE parts[1] \o sep \o Join(Tail(parts), sep)

MapSeq(f(_), s) == [i \in 1..Len(s) |-> f(s[i])]

RECURSIVE FilterSeq(_, _)
FilterSeq(p(_), s) ==
    IF s = <<>> THEN <<>>
    ELSE IF p(Head(s)) THEN <<Head(s)>> \o FilterSeq(p, Tail(s))
    ELSE FilterSeq(p, Tail(s))

\* a JavaScript Map or object with no entries
EmptyMap == [x \in {} |-> TRUE]

Put(f, k, v) == [x \in (DOMAIN f) \cup {k} |-> IF x = k THEN v ELSE f[x]]

Drop(f, k) == [x \in (DOMAIN f) \ {k} |-> f[x]]

RemoveAt(s, i) == SubSeq(s, 1, i - 1) \o SubSeq(s, i + 1, Len(s))

----------------------------------------------------------------------------
(* FileSystemUtils: name normalization and the slug of a file name *)

\* String.prototype.toLowerCase on the letters of the model
ToLowerCase(ch) ==
    CASE ch = "A" -> "a" [] ch = "C" -> "c" [] ch = "M" -> "m" [] ch = "S" -> "s"
      [] ch = "Á" -> "á" [] ch = "Ó" -> "ó"
      [] OTHER -> ch

\* [a-z0-9]
IsLowerAlnum(ch) ==
    ch \in {"a", "b", "c", "d", "e", "f", "g", "h", "i", "j", "k", "l", "m",
            "n", "o", "p", "q", "r", "s", "t", "u", "v", "w", "x", "y", "z",
            "0", "1", "2", "3", "4", "5", "6", "7", "8", "9"}

\* the characters /[^a-z0-9_-]/g leaves
IsNameChar(ch) == IsLowerAlnum(ch) \/ ch \in {"_", "-"}

\* the characters /[^a-z0-9\s-]/g leaves
IsSlugChar(ch) == IsLowerAlnum(ch) \/ IsSpace(ch) \/ ch = "-"

\* .replace(/\s+/g, "-")
RECURSIVE SpacesToHyphen(_)
SpacesToHyphen(s) ==
    IF s = <<>> THEN <<>>
    ELSE IF IsSpace(Head(s)) THEN <<"-">> \o SpacesToHyphen(TrimLeft(s))
    ELSE <<Head(s)>> \o SpacesToHyphen(Tail(s))

\* .replace(/-+/g, "-")
RECURSIVE CollapseHyphens(_)
CollapseHyphens(s) ==
    IF Len(s) < 2 THEN s
    ELSE IF s[1] = "-" /\ s[2] = "-" THEN CollapseHyphens(Tail(s))
    ELSE <<Head(s)>> \o CollapseHyphens(Tail(s))

RECURSIVE StripLeadingHyphens(_)
StripLeadingHyphens(s) ==
    IF s # <<>> /\ Head(s) = "-" THEN StripLeadingHyphens(Tail(s)) ELSE s

RECURSIVE StripTrailingHyphens(_)
StripTrailingHyphens(s) ==
    IF s # <<>> /\ s[Len(s)] = "-"
    THEN StripTrailingHyphens(SubSeq(s, 1, Len(s) - 1))
    ELSE s

\* .replace(/^-+|-+$/g, "")
StripHyphens(s) == StripTrailingHyphens(StripLeadingHyphens(s))

\* .replace(/^-|-$/g, ""): one hyphen at either end
StripOneHyphen(s) ==
    LET t == IF s # <<>> /\ Head(s) = "-" THEN Tail(s) ELSE s
    IN  IF t # <<>> /\ t[Len(t)] = "-" THEN SubSeq(t, 1, Len(t) - 1) ELSE t

\* a normalization that strips one hyphen at either end, as the slug does
C20_StripsOneHyphen(name) ==
    CollapseHyphens(StripOneHyphen(FilterSeq(IsNameChar,
        SpacesToHyphen(MapSeq(ToLowerCase, Trim(name))))))

\* FileSystemUtils.normalizeContextName(name)
normalizeContextName(name) ==
    CollapseHyphens(StripHyphens(FilterSeq(IsNameChar,
        SpacesToHyphen(MapSeq(ToLowerCase, Trim(name))))))

\* FileSystemUtils.isValidContextName(name): /^[a-z0-9_-]+$/
isValidContextName(name) ==
    name # <<>> /\ \A i \in 1..Len(name) : IsNameChar(name[i])

\* FileSystemUtils.normalizeAndValidateContext(name): ok is FALSE where it
\* throws
normalizeAndValidateContext(name) ==
    [ok |-> isValidContextName(normalizeContextName(name)),
     name |-> normalizeContextName(name)]

\* the slug generateMemoryFileName makes of a title
slug(title) ==
    StripOneHyphen(CollapseHyphens(SpacesToHyphen(
        FilterSeq(IsSlugChar, MapSeq(ToLowerCase, title)))))

----------------------------------------------------------------------------
(* The values the operations are called with *)

\* absent values are records, so that they compare with the records they replace
Null == [null |-> TRUE]
NoFile == [enoent |-> TRUE]
\* a document file gray-matter cannot parse: readMarkdown throws on it
Unreadable == [malformed |-> TRUE]
Readable(file) == file # NoFile /\ file # Unreadable

Contexts == {<<"c">>, <<"k">>}
LinkContexts == {<<"c">>}          \* the contexts links are created under
Subcontexts == {<<"s">>}
Descriptions == {<<"d">>, <<"d", ",", "e">>}
LinkTargets == {<<"p">>}          \* caminho_memoria of a link
Priorities == {1, 2}
SubPaths == {<<"c">>} \X Subcontexts   \* submemories/<ctx>/<sub>.json5
Titles == {<<"t">>}
\* generateMemoryFileName: the time to the second, then the slug of the title
generateMemoryFileName(title, now) == <<now, slug(title)>>
FileNames == {generateMemoryFileName(t, n) : t \in Titles, n \in 0..MaxClock}
Paths == Contexts \X Subcontexts \X FileNames  \* memories/<ctx>/<sub>/<file>
SubValues == {[priority |-> 1], [priority |-> 2]}
Tools == {"mainMemory", "links", "submemory", "memory"}

CallIds == 1..NumCalls
Idle == [pc |-> "idle", csv |-> <<>>]

Link(c, s, d, p) ==
    [contexto |-> c, subcontexto |-> s, descricao_curta |-> d,
     caminho_memoria |-> p]

----------------------------------------------------------------------------
(* MemoryCache: the CSV of a link table *)

CsvHeaders ==
    << <<"c","o","n","t","e","x","t","o">>,
       <<"s","u","b","c","o","n","t","e","x","t","o">>,
       <<"d","e","s","c","r","i","c","a","o","_","c","u","r","t","a">>,
       <<"c","a","m","i","n","h","o","_","m","e","m","o","r","i","a">> >>

LinkRow(link) ==
    Join(<<link.contexto, link.subcontexto, link.descricao_curta,
           link.caminho_memoria>>, <<",">>)

generateCSV(links) ==
    Join(<<Join(CsvHeaders, <<",">>)>> \o MapSeq(LinkRow, links), <<"\n">>)

ParseLinkLine(line) ==
    LET values == MapSeq(Trim, Split(line, ","))
    IN  IF Len(values) >= 4
        THEN <<Link(values[1], values[2], values[3], values[4])>>
        ELSE <<>>

RECURSIVE ParseLinkLines(_)
ParseLinkLines(lines) ==
    IF lines = <<>> THEN <<>>
    ELSE ParseLinkLine(Head(lines)) \o ParseLinkLines(Tail(lines))

parseCSV(data) ==
    LET lines == Split(Trim(data), "\n")
    IN  IF Len(lines) <= 1 THEN <<>> ELSE ParseLinkLines(Tail(lines))

----------------------------------------------------------------------------
(* MemoryCache: loading *)

\* main.sjson and submemory files hold JSON.stringify of plain data, which
\* JSON.parse gives back; the model keeps the value, wrapped as file text.
JSONStringify(v) == [json |-> v]
JSONParse(text) == text.json

NewCache == [mainMemory |-> Null, links |-> EmptyMap, submemories |-> EmptyMap,
             isLoaded |-> FALSE]

loadMainMemory(c, d) ==
    [c EXCEPT !.mainMemory =
        IF d.main = NoFile THEN Null ELSE JSONParse(d.main)]

\* every links/<ctx>.csv present is parsed; entries of files that are gone stay
loadAllLinks(c, d) ==
    [c EXCEPT !.links =
        [x \in (DOMAIN c.links) \cup {k \in Contexts : d.links[k] # NoFile} |->
            IF d.links[x] # NoFile THEN parseCSV(d.links[x].text) ELSE c.links[x]]]

loadAllSubmemories(c, d) ==
    [c EXCEPT !.submemories =
        [x \in (DOMAIN c.submemories) \cup {k \in SubPaths : d.subs[k] # NoFile} |->
            IF d.subs[x] # NoFile THEN JSONParse(d.subs[x]) ELSE c.submemories[x]]]

loadAll(c, d) ==
    [loadAllSubmemories(loadAllLinks(loadMainMemory(c, d), d), d)
        EXCEPT !.isLoaded = TRUE]

isReady(c) == c.isLoaded /\ c.mainMemory # Null

\* the guard every tool method starts with
EnsureReady(c, d) == IF isReady(c) THEN c ELSE loadAll(c, d)

getLinks(c, context) ==
    IF context \in DOMAIN c.links THEN c.links[context] ELSE <<>>

getSubmemory(c, path) ==
    IF path \in DOMAIN c.submemories THEN c.submemories[path] ELSE Null

----------------------------------------------------------------------------
(* FileSystemUtils: the CSV writer used outside the cache *)

Contains(s, ch) == \E i \in 1..Len(s) : s[i] = ch

RECURSIVE DoubleQuotes(_)
DoubleQuotes(s) ==
    IF s = <<>> THEN <<>>
    ELSE IF Head(s) = "\"" THEN <<"\"", "\"">> \o DoubleQuotes(Tail(s))
    ELSE <<Head(s)>> \o DoubleQuotes(Tail(s))

escapeCSVValue(value) ==
    IF Contains(value, ",") \/ Contains(value, "\"") \/ Contains(value, "\n")
    THEN <<"\"">> \o DoubleQuotes(value) \o <<"\"">>
    ELSE value

FsLinkRow(link) ==
    Join(<<escapeCSVValue(link.contexto), escapeCSVValue(link.subcontexto),
           escapeCSVValue(link.descricao_curta),
           escapeCSVValue(link.caminho_memoria)>>, <<",">>)

FsGenerateCSV(links) ==
    Join(<<Join(CsvHeaders, <<",">>)>> \o MapSeq(FsLinkRow, links), <<"\n">>)

\* fs.mkdir(recursive) then fs.writeFile; w: whether the write succeeds
writeCSV(d, context, links, w) ==
    IF w THEN [d |-> [d EXCEPT !.links =
                                Put(@, context, [text |-> FsGenerateCSV(links)])],
               ok |-> TRUE]
    ELSE [d |-> d, ok |-> FALSE]

----------------------------------------------------------------------------
(* MemoryCache: the write-through mutators.  Each gives the cache and the  *)
(* disk after the call and whether the call returned (ok) or threw.  w is  *)
(* whether the file write of the call succeeds.                            *)

Outcome(c, d, ok) == [c |-> c, d |-> d, ok |-> ok]

persistMainMemory(c, d, w) ==
    IF c.mainMemory = Null THEN Outcome(c, d, TRUE)
    ELSE IF w THEN Outcome(c, [d EXCEPT !.main = JSONStringify(c.mainMemory)], TRUE)
    ELSE Outcome(c, d, FALSE)

\* section is "contexts" throughout the model
updateMainMemory(c, d, data, now, w) ==
    IF c.mainMemory = Null THEN Outcome(c, d, FALSE)
    ELSE persistMainMemory(
            [c EXCEPT !.mainMemory =
                [@ EXCEPT !.contexts = data, !.last_updated = now]], d, w)

setMainMemory(c, d, memory, w) ==
    persistMainMemory([c EXCEPT !.mainMemory = memory], d, w)

persistLinksForContext(c, d, context, w) ==
    IF w THEN Outcome(c, [d EXCEPT !.links[context] =
                                [text |-> generateCSV(getLinks(c, context))]], TRUE)
    ELSE Outcome(c, d, FALSE)

addLink(c, d, context, link, w) ==
    persistLinksForContext(
        [c EXCEPT !.links = Put(@, context, Append(getLinks(c, context), link))],
        d, context, w)

\* an index past the last link is taken too
C33_UpToLength(existing, linkIndex) ==
    linkIndex >= 1 /\ linkIndex <= Len(existing) + 1

\* linkIndex >= 0 && linkIndex < existing.length; the model counts from 1
inRange(existing, linkIndex) == linkIndex >= 1 /\ linkIndex <= Len(existing)

updateLink(c, d, context, linkIndex, updatedLink, w) ==
    LET existing == getLinks(c, context)
    IN  IF inRange(existing, linkIndex)
        THEN persistLinksForContext(
                [c EXCEPT !.links =
                    Put(@, context, [existing EXCEPT ![linkIndex] = updatedLink])],
                d, context, w)
        ELSE Outcome(c, d, FALSE)

removeLink(c, d, context, linkIndex, w) ==
    LET existing == getLinks(c, context)
    IN  IF inRange(existing, linkIndex)
        THEN persistLinksForContext(
                [c EXCEPT !.links = Put(@, context, RemoveAt(existing, linkIndex))],
                d, context, w)
        ELSE Outcome(c, d, FALSE)

persistSubmemory(c, d, relativePath, submemory, w) ==
    IF w THEN Outcome(c, [d EXCEPT !.subs[relativePath] =
                                JSONStringify(submemory)], TRUE)
    ELSE Outcome(c, d, FALSE)

setSubmemory(c, d, relativePath, submemory, w) ==
    persistSubmemory([c EXCEPT !.submemories = Put(@, relativePath, submemory)],
                     d, relativePath, submemory, w)

\* fs.unlink fails when the file is not there, or when w is FALSE
removeSubmemory(c, d, relativePath, w) ==
    LET c1 == [c EXCEPT !.submemories = Drop(@, relativePath)]
    IN  IF w /\ d.subs[relativePath] # NoFile
        THEN Outcome(c1, [d EXCEPT !.subs[relativePath] = NoFile], TRUE)
        ELSE Outcome(c1, d, FALSE)

----------------------------------------------------------------------------
(* The tool objects.  Every tool object owns a MemoryCache of its own      *)
(* (index.ts, ensureToolsInitialized); an action is one tool method, run   *)
(* to completion.  W is the set of outcomes a file write may have.         *)

\* what a call returned: the kind of method, the tool object, and whether it
\* returned normally (ok) or threw / returned false
Returned(op, tool, ok) == [op |-> op, tool |-> tool, ok |-> ok]

ContextRec(name, priority) == [link_file |-> name, priority |-> priority]

FindLink(links, context, subcontext) ==
    IF \E i \in 1..Len(links) :
            links[i].contexto = context /\ links[i].subcontexto = subcontext
    THEN CHOOSE i \in 1..Len(links) :
            /\ links[i].contexto = context /\ links[i].subcontexto = subcontext
            /\ \A j \in 1..(i - 1) :
                  ~(links[j].contexto = context /\ links[j].subcontexto = subcontext)
    ELSE 0

indexUnchanged == UNCHANGED <<fts, meta>>

\* MainMemoryTools.memoryMainUpdate("contexts", data)
MemoryMainUpdate(data, w) ==
    LET c0 == EnsureReady(cache["mainMemory"], disk)
        r == updateMainMemory(c0, disk, data, clock, w)
    IN  /\ cache' = [cache EXCEPT !["mainMemory"] = r.c]
        /\ disk' = r.d
        /\ result' = Returned("root", "mainMemory", r.ok)
        /\ UNCHANGED <<calls, docs, clock>> /\ indexUnchanged

\* MainMemoryTools.memoryMainSet(memory)
MemoryMainSet(memory, w) ==
    LET r == setMainMemory(cache["mainMemory"], disk, memory, w)
    IN  /\ cache' = [cache EXCEPT !["mainMemory"] = r.c]
        /\ disk' = r.d
        /\ result' = Returned("root", "mainMemory", r.ok)
        /\ UNCHANGED <<calls, docs, clock>> /\ indexUnchanged

AddedContext(name, priority, ok) ==
    [op |-> "addContext", tool |-> "mainMemory", ok |-> ok, name |-> name,
     priority |-> priority]

\* a check that finds no context
C24_NeverExists(mm, name) == FALSE

\* if (!name || !name.trim()) throw; if (name.includes("/")) throw
acceptsContextName(name) == Trim(name) # <<>> /\ ~Contains(name, "/")

\* if (mainMemory.contexts[name]) throw
contextExists(mm, name) == name \in DOMAIN mm.contexts

\* MainMemoryTools.memoryMainAddContext(name, description, priority): ok is
\* FALSE where it throws
MemoryMainAddContext(name, priority, w1, w2) ==
    LET c0 == EnsureReady(cache["mainMemory"], disk)
        mm == c0.mainMemory
    IN  IF mm = Null \/ ~acceptsContextName(name) \/ contextExists(mm, name)
        THEN /\ cache' = [cache EXCEPT !["mainMemory"] = c0]
             /\ result' = AddedContext(name, priority, FALSE)
             /\ UNCHANGED <<disk, calls, docs, clock>> /\ indexUnchanged
        ELSE LET r1 == updateMainMemory(c0, disk,
                           Put(mm.contexts, name, ContextRec(name, priority)),
                           clock, w1)
                 r2 == writeCSV(r1.d, name, <<>>, w2)
             IN  /\ cache' = [cache EXCEPT !["mainMemory"] = r1.c]
                 /\ disk' = IF r1.ok THEN r2.d ELSE r1.d
                 /\ result' = AddedContext(name, priority, r1.ok /\ r2.ok)
                 /\ UNCHANGED <<calls, docs, clock>> /\ indexUnchanged

\* FileSystemUtils.safeDelete of links/<name>.csv, submemories/<name> and
\* memories/<name>: a missing file or directory is not an error
DeleteContextFiles(d, name) ==
    [d EXCEPT !.links[name] = NoFile,
              !.subs = [p \in SubPaths |-> IF p[1] = name THEN NoFile ELSE @[p]]]

DeleteContextDocs(ds, name) ==
    [p \in Paths |-> IF p[1] = name THEN NoFile ELSE ds[p]]

\* MainMemoryTools.memoryMainRemoveContext(name)
MemoryMainRemoveContext(name, w) ==
    LET c0 == EnsureReady(cache["mainMemory"], disk)
        mm == c0.mainMemory
    IN  IF mm = Null \/ name \notin DOMAIN mm.contexts
        THEN /\ cache' = [cache EXCEPT !["mainMemory"] = c0]
             /\ result' = Returned("context", "mainMemory", FALSE)
             /\ UNCHANGED <<disk, calls, docs, clock>> /\ indexUnchanged
        ELSE LET r == updateMainMemory(c0, disk, Drop(mm.contexts, name), clock, w)
             IN  /\ cache' = [cache EXCEPT !["mainMemory"] = r.c]
                 /\ disk' = IF r.ok THEN DeleteContextFiles(r.d, name) ELSE r.d
                 /\ docs' = IF r.ok THEN DeleteContextDocs(docs, name) ELSE docs
                 /\ result' = Returned("context", "mainMemory", r.ok)
                 /\ UNCHANGED <<calls, clock>> /\ indexUnchanged

\* if (description.length > 200) throw
DescriptionLimit == 200

\* LinksTools.linksCreate(context, subcontext, description, memoryPath)
LinksCreate(context, subcontext, description, memoryPath, w) ==
    LET c0 == EnsureReady(cache["links"], disk)
        normalizedContext == normalizeAndValidateContext(context)
        normalizedSubcontext == normalizeAndValidateContext(subcontext)
        r == IF /\ normalizedContext.ok /\ normalizedSubcontext.ok
                /\ Len(description) <= DescriptionLimit
             THEN addLink(c0, disk, normalizedContext.name,
                          Link(normalizedContext.name, normalizedSubcontext.name,
                               description, memoryPath), w)
             ELSE Outcome(c0, disk, FALSE)
    IN  /\ Len(getLinks(c0, normalizedContext.name)) < MaxLinks
        /\ cache' = [cache EXCEPT !["links"] = r.c]
        /\ disk' = r.d
        /\ result' = [op |-> "links", call |-> "create", tool |-> "links", ok |-> r.ok,
                      context |-> context, subcontext |-> subcontext,
                      description |-> description]
        /\ UNCHANGED <<calls, docs, clock>> /\ indexUnchanged

\* LinksTools.linksUpdate(context, subcontext, {descricao_curta})
LinksUpdate(context, subcontext, description, w) ==
    LET c0 == EnsureReady(cache["links"], disk)
        links == getLinks(c0, context)
        linkIndex == FindLink(links, context, subcontext)
        r == IF linkIndex = 0 THEN Outcome(c0, disk, FALSE)
             ELSE updateLink(c0, disk, context, linkIndex,
                    [links[linkIndex] EXCEPT !.descricao_curta = description,
                                             !.contexto = context,
                                             !.subcontexto = subcontext], w)
    IN  /\ cache' = [cache EXCEPT !["links"] = r.c]
        /\ disk' = r.d
        /\ result' = [op |-> "links", call |-> "update", tool |-> "links", ok |-> r.ok,
                      description |-> description]
        /\ UNCHANGED <<calls, docs, clock>> /\ indexUnchanged

\* LinksTools.linksDelete(context, subcontext)
LinksDelete(context, subcontext, w) ==
    LET c0 == EnsureReady(cache["links"], disk)
        linkIndex == FindLink(getLinks(c0, context), context, subcontext)
        r == IF linkIndex = 0 THEN Outcome(c0, disk, FALSE)
             ELSE removeLink(c0, disk, context, linkIndex, w)
    IN  /\ cache' = [cache EXCEPT !["links"] = r.c]
        /\ disk' = r.d
        /\ result' = [op |-> "links", call |-> "delete", tool |-> "links",
                      ok |-> r.ok]
        /\ UNCHANGED <<calls, docs, clock>> /\ indexUnchanged

\* SubmemoryTools.submemoryCreate(context, subcontext, data)
SubmemoryCreate(relativePath, submemory, w) ==
    LET c0 == EnsureReady(cache["submemory"], disk)
        r == setSubmemory(c0, disk, relativePath, submemory, w)
    IN  /\ cache' = [cache EXCEPT !["submemory"] = r.c]
        /\ disk' = r.d
        /\ result' = Returned("submemory", "submemory", r.ok)
        /\ UNCHANGED <<calls, docs, clock>> /\ indexUnchanged

\* SubmemoryTools.submemoryUpdate(relativePath, data)
SubmemoryUpdate(relativePath, submemory, w) ==
    LET c0 == EnsureReady(cache["submemory"], disk)
        r == IF getSubmemory(c0, relativePath) = Null THEN Outcome(c0, disk, FALSE)
             ELSE setSubmemory(c0, disk, relativePath, submemory, w)
    IN  /\ cache' = [cache EXCEPT !["submemory"] = r.c]
        /\ disk' = r.d
        /\ result' = Returned("submemory", "submemory", r.ok)
        /\ UNCHANGED <<calls, docs, clock>> /\ indexUnchanged

\* SubmemoryTools.submemoryDelete(relativePath)
SubmemoryDelete(relativePath, w) ==
    LET c0 == EnsureReady(cache["submemory"], disk)
        r == IF getSubmemory(c0, relativePath) = Null THEN Outcome(c0, disk, FALSE)
             ELSE removeSubmemory(c0, disk, relativePath, w)
    IN  /\ cache' = [cache EXCEPT !["submemory"] = r.c]
        /\ disk' = r.d
        /\ result' = Returned("submemory", "submemory", r.ok)
        /\ UNCHANGED <<calls, docs, clock>> /\ indexUnchanged

\* time passes
Tick ==
    /\ clock < MaxClock
    /\ clock' = clock + 1
    /\ result' = Returned("tick", "clock", TRUE)
    /\ UNCHANGED <<disk, cache, calls, docs, fts, meta>>

----------------------------------------------------------------------------
(* The state after the init tool on a fresh project and after             *)
(* ensureToolsInitialized: main.sjson with no contexts, every cache loaded *)

\* the "contexts" sections memory_main_update is called with
UpdateInputs == {[n \in S |-> ContextRec(n, 1)] : S \in SUBSET Contexts}

InitialMemory == [contexts |-> EmptyMap, last_updated |-> 0]

InitDisk ==
    [main |-> JSONStringify(InitialMemory),
     links |-> [c \in Contexts |-> NoFile],
     subs |-> [p \in SubPaths |-> NoFile]]

InitCache ==
    /\ disk = InitDisk
    /\ cache = [t \in Tools |-> loadAll(NewCache, InitDisk)]
    /\ calls = [k \in CallIds |-> Idle]
    /\ docs = [p \in Paths |-> NoFile]
    /\ fts = EmptyMap
    /\ meta = [p \in Paths |-> Null]
    /\ clock = 0
    /\ result = Returned("init", "init", TRUE)

\* the tool methods that change files only through their MemoryCache
CacheCalls(W) ==
    \/ \E data \in UpdateInputs, w \in W : MemoryMainUpdate(data, w)
    \/ \E c \in LinkContexts, s \in Subcontexts, d \in Descriptions,
          p \in LinkTargets, w \in W : LinksCreate(c, s, d, p, w)
    \/ \E c \in LinkContexts, s \in Subcontexts, d \in Descriptions, w \in W :
            LinksUpdate(c, s, d, w)
    \/ \E c \in LinkContexts, s \in Subcontexts, w \in W : LinksDelete(c, s, w)
    \/ \E p \in SubPaths, v \in SubValues, w \in W : SubmemoryCreate(p, v, w)
    \/ \E p \in SubPaths, v \in SubValues, w \in W : SubmemoryUpdate(p, v, w)
    \/ \E p \in SubPaths, w \in W : SubmemoryDelete(p, w)

CacheNext ==
    \/ CacheCalls({TRUE})
    \/ \E n \in Contexts, p \in Priorities : MemoryMainAddContext(n, p, TRUE, TRUE)
    \/ \E n \in Contexts : MemoryMainRemoveContext(n, TRUE)
    \/ MemoryMainSet(InitialMemory, TRUE)
    \/ Tick

\* every file write succeeds
SpecCache == InitCache /\ [][CacheNext]_vars

\* a file write may fail
SpecCacheFail == InitCache /\ [][CacheCalls(BOOLEAN)]_vars

----------------------------------------------------------------------------
(* What a cache answers to getMainMemory, getLinks and getSubmemory, and   *)
(* what a new MemoryCache answers after loadAll() on the same directory    *)

View(c) ==
    [root |-> c.mainMemory,
     links |-> [x \in Contexts |-> getLinks(c, x)],
     subs |-> [p \in SubPaths |-> getSubmemory(c, p)]]

FreshView(d) == View(loadAll(NewCache, d))

CacheOps == {"root", "links", "submemory"}

\* C1: after a successful MemoryCache mutating call, a fresh cache that runs
\* loadAll() on the directory holds the same root, links and submemories as
\* the cache that made the call (given that it did so before the call).
C1_FreshLoadReproducesCache ==
    [][(/\ result'.op \in CacheOps
        /\ result'.ok
        /\ View(cache[result'.tool]) = FreshView(disk))
       => View(cache'[result'.tool]) = FreshView(disk')]_vars

\* C2: a mutating call whose durable write fails leaves the in-memory view of
\* its cache as it was before the call.
C2_FailedWriteLeavesCacheUnchanged ==
    [][(result'.op \in CacheOps /\ ~result'.ok)
       => View(cache'[result'.tool]) = View(cache[result'.tool])]_vars

\* C4: between operations, every tool object's cache equals what is on disk.
C4_EveryCacheEqualsDisk ==
    \A t \in Tools : View(cache[t]) = FreshView(disk)

----------------------------------------------------------------------------
(* Overlapping link writes.  LinksTools methods are async: the cache is    *)
(* changed and the CSV text is built before the first await (fs.mkdir);    *)
(* fs.writeFile is issued when mkdir completes, and the two completions of *)
(* different calls arrive in any order.                                    *)

ConcContext == <<"c">>
ConcDescriptions == {<<"d">>, <<"e">>}

\* the synchronous part of addLink / updateLink / removeLink and of
\* persistLinksForContext, up to `await fs.mkdir`
Begin(k, c1) ==
    /\ cache' = [cache EXCEPT !["links"] = c1]
    /\ calls' = [calls EXCEPT ![k] =
                    [pc |-> "mkdir", csv |-> generateCSV(getLinks(c1, ConcContext))]]
    /\ UNCHANGED <<disk, docs, fts, meta, clock, result>>

StartLinksCreate(k, description) ==
    /\ calls[k].pc = "idle"
    /\ Begin(k, [cache["links"] EXCEPT !.links =
            Put(@, ConcContext,
                Append(getLinks(cache["links"], ConcContext),
                       Link(ConcContext, <<"s">>, description, <<"p">>)))])

StartLinksUpdate(k, description) ==
    LET links == getLinks(cache["links"], ConcContext)
        linkIndex == FindLink(links, ConcContext, <<"s">>)
    IN  /\ calls[k].pc = "idle"
        /\ linkIndex # 0
        /\ Begin(k, [cache["links"] EXCEPT !.links =
                Put(@, ConcContext,
                    [links EXCEPT ![linkIndex].descricao_curta = description])])

StartLinksDelete(k) ==
    LET links == getLinks(cache["links"], ConcContext)
        linkIndex == FindLink(links, ConcContext, <<"s">>)
    IN  /\ calls[k].pc = "idle"
        /\ linkIndex # 0
        /\ Begin(k, [cache["links"] EXCEPT !.links =
                Put(@, ConcContext, RemoveAt(links, linkIndex))])

\* fs.mkdir resolved: fs.writeFile is issued
MkdirDone(k) ==
    /\ calls[k].pc = "mkdir"
    /\ calls' = [calls EXCEPT ![k].pc = "write"]
    /\ UNCHANGED <<disk, cache, docs, fts, meta, clock, result>>

\* fs.writeFile resolved: the file holds this call's text, the call returns
WriteDone(k) ==
    /\ calls[k].pc = "write"
    /\ disk' = [disk EXCEPT !.links[ConcContext] = [text |-> calls[k].csv]]
    /\ calls' = [calls EXCEPT ![k].pc = "done"]
    /\ UNCHANGED <<cache, docs, fts, meta, clock, result>>

ConcDisk ==
    [InitDisk EXCEPT !.links[ConcContext] =
        [text |-> generateCSV(<<Link(ConcContext, <<"s">>, <<"d">>, <<"p">>)>>)]]

InitConc ==
    /\ disk = ConcDisk
    /\ cache = [t \in Tools |-> loadAll(NewCache, ConcDisk)]
    /\ calls = [k \in CallIds |-> Idle]
    /\ docs = [p \in Paths |-> NoFile]
    /\ fts = EmptyMap
    /\ meta = [p \in Paths |-> Null]
    /\ clock = 0
    /\ result = Returned("init", "init", TRUE)

ConcNext ==
    \/ \E k \in CallIds, d \in ConcDescriptions : StartLinksCreate(k, d)
    \/ \E k \in CallIds, d \in ConcDescriptions : StartLinksUpdate(k, d)
    \/ \E k \in CallIds : StartLinksDelete(k)
    \/ \E k \in CallIds : MkdirDone(k)
    \/ \E k \in CallIds : WriteDone(k)

SpecConc == InitConc /\ [][ConcNext]_vars

\* C3: once the overlapping link calls have all returned, the link file and
\* the in-memory list of the context hold the effect of every call.
C3_NoLostLinkUpdate ==
    (\A k \in CallIds : calls[k].pc = "done")
    => parseCSV(disk.links[ConcContext].text) = getLinks(cache["links"], ConcContext)

----------------------------------------------------------------------------
(* The tags column.  memory_index holds tags.join(" "); memory_metadata   *)
(* holds JSON.stringify(tags).  JSON text is parsed character by           *)
(* character; tags are words without quotes, commas or backslashes.        *)

TagValues == {<<"a">>, <<"b">>, <<"7">>}
TagLists == {<<>>, << <<"a">> >>, << <<"a">>, <<"b">> >>, << <<"7">> >>}

\* JavaScript values JSON.parse can give back from a tags column
Str(s) == [string |-> s]
Num(s) == [number |-> s]
Arr(items) == [array |-> items]
StringArray(tags) == Arr(MapSeq(Str, tags))

\* tags.join(" "), the tags column of memory_index
tagsString(tags) == Join(tags, <<" ">>)

Quote(s) == <<"\"">> \o s \o <<"\"">>

\* the tags written as memory_index holds them
C7_SpaceJoinedTags(tags) == tagsString(tags)

\* JSON.stringify of an array of strings
JSONStringifyArray(tags) ==
    <<"[">> \o Join(MapSeq(Quote, tags), <<",">>) \o <<"]">>

IsDigit(ch) == ch \in {"0", "1", "2", "3", "4", "5", "6", "7", "8", "9"}

IsJSONNumber(s) ==
    /\ s # <<>>
    /\ \A i \in 1..Len(s) : IsDigit(s[i])
    /\ (Len(s) > 1 => s[1] # "0")

IsJSONString(s) ==
    /\ Len(s) >= 2
    /\ s[1] = "\"" /\ s[Len(s)] = "\""
    /\ \A i \in 2..(Len(s) - 1) : s[i] \notin {"\"", "\\", "\n"}

ParseFailed == [ok |-> FALSE, value |-> Null]
Parsed(v) == [ok |-> TRUE, value |-> v]

\* a JSON scalar: a string or a number
JSONScalar(text) ==
    IF IsJSONString(text) THEN Parsed(Str(SubSeq(text, 2, Len(text) - 1)))
    ELSE IF IsJSONNumber(text) THEN Parsed(Num(text))
    ELSE ParseFailed

ScalarValue(text) == JSONScalar(text).value

\* JSON.parse(text): ok is FALSE where JSON.parse throws SyntaxError
JSONParseText(text) ==
    LET s == Trim(text)
    IN  IF Len(s) >= 2 /\ s[1] = "[" /\ s[Len(s)] = "]"
        THEN LET inner == Trim(SubSeq(s, 2, Len(s) - 1))
                 items == IF inner = <<>> THEN <<>>
                          ELSE MapSeq(Trim, Split(inner, ","))
             IN  IF \A i \in 1..Len(items) : JSONScalar(items[i]).ok
                 THEN Parsed(Arr(MapSeq(ScalarValue, items)))
                 ELSE ParseFailed
        ELSE JSONScalar(s)

NonEmpty(s) == s # <<>>

\* text.split(" ").filter(Boolean)
SplitWords(text) == FilterSeq(NonEmpty, Split(text, " "))

----------------------------------------------------------------------------
(* SearchIndex: the two tables of search-index.db.  memory_index is an    *)
(* FTS5 table: it has no key but its rowid, so it can hold several rows of *)
(* one path.  memory_metadata has path as its PRIMARY KEY.                 *)

Memory(title, context, subcontext, tags, created, updated) ==
    [title |-> title, context |-> context, subcontext |-> subcontext,
     tags |-> tags, created_at |-> created, updated_at |-> updated]

FtsRow(relativePath, memory) ==
    [path |-> relativePath, title |-> memory.title, context |-> memory.context,
     subcontext |-> memory.subcontext, tags |-> tagsString(memory.tags),
     created_at |-> memory.created_at, updated_at |-> memory.updated_at]

MetaRow(memory) ==
    [title |-> memory.title, context |-> memory.context,
     subcontext |-> memory.subcontext, tags |-> JSONStringifyArray(memory.tags),
     created_at |-> memory.created_at, updated_at |-> memory.updated_at]

Index(f, m) == [fts |-> f, meta |-> m]

\* INSERT into memory_index: one more row, whatever rows there are
InsertFts(f, row) ==
    IF row \in DOMAIN f THEN [f EXCEPT ![row] = @ + 1] ELSE Put(f, row, 1)

\* DELETE FROM memory_index WHERE path = ?
DeleteFts(f, relativePath) ==
    [row \in {r \in DOMAIN f : r.path # relativePath} |-> f[row]]

RECURSIVE SumOver(_, _)
SumOver(f, S) ==
    IF S = {} THEN 0
    ELSE LET x == CHOOSE y \in S : TRUE IN f[x] + SumOver(f, S \ {x})

\* SELECT COUNT(*) FROM memory_index [WHERE path = ?]
CountFts(f) == SumOver(f, DOMAIN f)
CountFtsPath(f, relativePath) ==
    SumOver(f, {r \in DOMAIN f : r.path = relativePath})

\* a frontmatter field with no value ("title:"): YAML null, bound as SQL NULL
NullText == <<"null">>

\* SearchIndex.indexMemory(relativePath): ok is FALSE where it throws
\* IndexError: the document cannot be read, and nothing is written; or its
\* title is null, which memory_index takes and memory_metadata (title TEXT
\* NOT NULL) refuses, after the row of memory_index is in
indexMemory(ix, ds, relativePath) ==
    IF ~Readable(ds[relativePath]) THEN [ix |-> ix, ok |-> FALSE]
    ELSE LET memory == ds[relativePath]
         IN  IF memory.title = NullText
             THEN [ix |-> Index(InsertFts(ix.fts, FtsRow(relativePath, memory)),
                                ix.meta),
                   ok |-> FALSE]
             ELSE
             [ix |-> Index(InsertFts(ix.fts, FtsRow(relativePath, memory)),
                           [ix.meta EXCEPT ![relativePath] = MetaRow(memory)]),
              ok |-> TRUE]

\* SearchIndex.removeMemory(relativePath)
removeMemory(ix, relativePath) ==
    Index(DeleteFts(ix.fts, relativePath),
          [ix.meta EXCEPT ![relativePath] = Null])

\* a reindexAll that stops at the first file it cannot index
RECURSIVE C13_AbortAtFirstError(_, _, _)
C13_AbortAtFirstError(ix, ds, S) ==
    IF S = {} THEN ix
    ELSE LET p == CHOOSE q \in S : TRUE
         IN  IF indexMemory(ix, ds, p).ok
             THEN C13_AbortAtFirstError(indexMemory(ix, ds, p).ix, ds, S \ {p})
             ELSE ix

\* SearchIndex.reindexAll(): both tables are emptied, then every document
\* file under memories/ is indexed
RECURSIVE IndexEach(_, _, _)
IndexEach(ix, ds, S) ==
    IF S = {} THEN ix
    ELSE LET p == CHOOSE q \in S : TRUE
         IN  IndexEach(indexMemory(ix, ds, p).ix, ds, S \ {p})

listFilesWithExtensions(ds) == {p \in Paths : ds[p] # NoFile}

EmptyIndex == Index(EmptyMap, [p \in Paths |-> Null])

\* the report of reindexAll: indexed counts the files indexMemory returned
\* for, errors has one entry for every file it threw on
reindexReport(ds) ==
    [indexed |-> Cardinality({p \in listFilesWithExtensions(ds) :
                                indexMemory(EmptyIndex, ds, p).ok}),
     errors |-> {p \in listFilesWithExtensions(ds) :
                    ~indexMemory(EmptyIndex, ds, p).ok}]

\* a reindexAll whose DELETE leaves the rows of memory_index
C14_KeepFtsRows(ix) == Index(ix.fts, [p \in Paths |-> Null])

\* DELETE FROM memory_index; DELETE FROM memory_metadata
clearTables(ix) == EmptyIndex

\* reindexAll run on the index ix
reindexAllOver(ix, ds) ==
    IndexEach(clearTables(ix), ds, listFilesWithExtensions(ds))

reindexAll(ds) == reindexAllOver(EmptyIndex, ds)

----------------------------------------------------------------------------
(* MemoryTools: the document operations.  T is the set of tag lists the    *)
(* operations are called with.                                             *)

\* what a document operation returned, and the path it worked on
ReturnedPath(op, ok, relativePath) ==
    [op |-> op, tool |-> "memory", ok |-> ok, path |-> relativePath]

memoryPath(context, subcontext, fileName) == <<context, subcontext, fileName>>

\* the frontmatter argument of memory_update: no field, or new tags
Partials(T) == {EmptyMap} \cup {[tags |-> t] : t \in T}

\* {...memory.frontmatter, ...frontmatter}
Merge(memory, frontmatter) ==
    [f \in DOMAIN memory |->
        IF f \in DOMAIN frontmatter THEN frontmatter[f] ELSE memory[f]]

\* the merged frontmatter as the caller's fields left it
C30_KeepMerged(existing, merged) == merged

\* Preserve core fields: created_at: memory.frontmatter.created_at
preserveCore(existing, merged) ==
    [merged EXCEPT !.created_at = existing.created_at]

\* MemoryTools.memoryCreate(context, subcontext, title, content, tags)
MemoryCreate(context, subcontext, title, tags) ==
    LET relativePath ==
            memoryPath(context, subcontext, generateMemoryFileName(title, clock))
        ds == [docs EXCEPT ![relativePath] =
                    Memory(title, context, subcontext, tags, clock, clock)]
        r == indexMemory(Index(fts, meta), ds, relativePath)
    IN  /\ CountFts(fts) < MaxFtsRows
        /\ cache' = [cache EXCEPT !["memory"] = EnsureReady(@, disk)]
        /\ docs' = ds
        /\ fts' = r.ix.fts
        /\ meta' = r.ix.meta
        /\ result' = ReturnedPath("create", r.ok, relativePath)
        /\ UNCHANGED <<disk, calls, clock>>

\* MemoryTools.memoryUpdate(relativePath, content, frontmatter)
MemoryUpdate(relativePath, frontmatter) ==
    IF ~Readable(docs[relativePath])
    THEN /\ result' = ReturnedPath("update", FALSE, relativePath)
         /\ UNCHANGED <<disk, cache, calls, docs, fts, meta, clock>>
    ELSE LET memory == preserveCore(docs[relativePath],
                                    [Merge(docs[relativePath], frontmatter)
                                        EXCEPT !.updated_at = clock])
             ds == [docs EXCEPT ![relativePath] = memory]
             r == indexMemory(Index(fts, meta), ds, relativePath)
         IN  /\ CountFts(fts) < MaxFtsRows
             /\ docs' = ds
             /\ fts' = r.ix.fts
             /\ meta' = r.ix.meta
             /\ result' = ReturnedPath("update", r.ok, relativePath)
             /\ UNCHANGED <<disk, cache, calls, clock>>

\* MemoryTools.memoryDelete(relativePath)
MemoryDelete(relativePath) ==
    LET ix == removeMemory(Index(fts, meta), relativePath)
    IN  /\ docs' = [docs EXCEPT ![relativePath] = NoFile]
        /\ fts' = ix.fts
        /\ meta' = ix.meta
        /\ result' = ReturnedPath("delete", TRUE, relativePath)
        /\ UNCHANGED <<disk, cache, calls, clock>>

\* what memoryMove returned: the path it was called for and the new path
Moved(ok, oldPath, newRelativePath) ==
    [op |-> "move", tool |-> "memory", ok |-> ok, path |-> newRelativePath,
     from |-> oldPath]

\* MemoryTools.memoryMove(oldPath, newContext, newSubcontext)
MemoryMove(oldPath, newContext, newSubcontext) ==
    IF ~Readable(docs[oldPath])
    THEN /\ result' = Moved(FALSE, oldPath, oldPath)
         /\ UNCHANGED <<disk, cache, calls, docs, fts, meta, clock>>
    ELSE LET memory == [docs[oldPath] EXCEPT !.context = newContext,
                                             !.subcontext = newSubcontext,
                                             !.updated_at = clock]
             newRelativePath == memoryPath(newContext, newSubcontext, oldPath[3])
             written == [docs EXCEPT ![newRelativePath] = memory]
             ds == [written EXCEPT ![oldPath] = NoFile]
             r == indexMemory(removeMemory(Index(fts, meta), oldPath), ds,
                              newRelativePath)
         IN  /\ CountFts(fts) < MaxFtsRows
             /\ docs' = ds
             /\ fts' = r.ix.fts
             /\ meta' = r.ix.meta
             /\ result' = Moved(r.ok, oldPath, newRelativePath)
             /\ UNCHANGED <<disk, cache, calls, clock>>

\* MemoryTools.reindexAll()
ReindexAll ==
    LET ix == reindexAllOver(Index(fts, meta), docs)
    IN  /\ Cardinality(listFilesWithExtensions(docs)) <= MaxFtsRows
        /\ fts' = ix.fts
        /\ meta' = ix.meta
        /\ result' = [op |-> "reindexAll", tool |-> "memory", ok |-> TRUE,
                      indexed |-> reindexReport(docs).indexed,
                      errors |-> reindexReport(docs).errors]
        /\ UNCHANGED <<disk, cache, calls, docs, clock>>

\* MemoryTools.reindexMemory(relativePath)
ReindexMemory(relativePath) ==
    LET r == indexMemory(Index(fts, meta), docs, relativePath)
    IN  /\ CountFts(fts) < MaxFtsRows
        /\ fts' = r.ix.fts
        /\ meta' = r.ix.meta
        /\ result' = ReturnedPath("reindex", r.ok, relativePath)
        /\ UNCHANGED <<disk, cache, calls, docs, clock>>

DocCalls(T) ==
    \/ \E c \in Contexts, s \in Subcontexts, t \in Titles, tags \in T :
            MemoryCreate(c, s, t, tags)
    \/ \E p \in Paths, fm \in Partials(T) : MemoryUpdate(p, fm)
    \/ \E p \in Paths : MemoryDelete(p)
    \/ \E p \in Paths, c \in Contexts, s \in Subcontexts : MemoryMove(p, c, s)
    \/ \E p \in Paths : ReindexMemory(p)
    \/ ReindexAll

IndexTagLists == {<<>>, << <<"a">>, <<"b">> >>}

IndexNext ==
    \/ DocCalls(IndexTagLists)
    \/ \E n \in Contexts : MemoryMainAddContext(n, 1, TRUE, TRUE)
    \/ \E n \in Contexts : MemoryMainRemoveContext(n, TRUE)
    \/ Tick

\* documents, the search index and the contexts of the root
SpecIndex == InitCache /\ [][IndexNext]_vars

\* documents and the search index only
SpecDocs == InitCache /\ [][DocCalls(IndexTagLists) \/ Tick]_vars

IndexedPaths ==
    {p \in Paths : meta[p] # Null} \cup {row.path : row \in DOMAIN fts}

\* C5: indexing a path again leaves exactly one row of memory_index and
\* exactly one row of memory_metadata for that path.
C5_OneEntryPerPath ==
    (result.op \in {"create", "update", "move", "reindex"} /\ result.ok)
    => /\ CountFtsPath(fts, result.path) = 1
       /\ meta[result.path] # Null

\* C6: after memory_create, memory_update, memory_delete, memory_move and
\* remove_context, the indexed paths are the paths of the document files.
C6_IndexedPathsAreDocuments ==
    IndexedPaths = listFilesWithExtensions(docs)

TagSet(value) == {value.array[i] : i \in 1..Len(value.array)}

\* C7: the tags column of every memory_metadata row decodes as a JSON array,
\* and its elements are the tags of the document's frontmatter.
C7_MetaTagsDecodeToFrontmatter ==
    \A p \in Paths :
        (meta[p] # Null /\ docs[p] # NoFile)
        => /\ JSONParseText(meta[p].tags).ok
           /\ TagSet(JSONParseText(meta[p].tags).value)
                = {Str(docs[p].tags[i]) : i \in 1..Len(docs[p].tags)}

\* a document with tags whose metadata row was written a second time
C7_ReindexedTaggedDocument ==
    /\ result.op = "update" /\ result.ok
    /\ docs[result.path].tags # <<>>
    /\ meta[result.path] # Null

----------------------------------------------------------------------------
(* SearchIndex.search.  A query is words of letters and digits separated   *)
(* by spaces; options carry a tags filter only; limit and offset are the   *)
(* defaults (10, 0), so every hit is returned.  The hits are a set: their  *)
(* bm25 order is not modelled.                                             *)

WordChars ==
    {"a", "b", "c", "d", "e", "f", "g", "h", "i", "j", "k", "l", "m", "n", "o",
     "p", "q", "r", "s", "t", "u", "v", "w", "x", "y", "z", "_",
     "0", "1", "2", "3", "4", "5", "6", "7", "8", "9"}

IsQueryChar(ch) == ch \in WordChars \cup {" ", "\n", "-", "\""}

\* the terms of the FTS5 query: one term, or "t1" OR "t2" OR ...
buildFTSQuery(query) == SplitWords(FilterSeq(IsQueryChar, Trim(query)))

\* the tokens unicode61 finds in the columns of a row of memory_index
RowTokens(row) ==
    {row.title, row.context, row.subcontext}
        \cup {SplitWords(row.tags)[i] : i \in 1..Len(SplitWords(row.tags))}

\* memory_index MATCH ?
Matches(row, terms) == \E i \in 1..Len(terms) : terms[i] \in RowTokens(row)

IsSubstring(needle, hay) ==
    \E i \in 0..(Len(hay) - Len(needle)) :
        SubSeq(hay, i + 1, i + Len(needle)) = needle

ScalarText(v) == IF "string" \in DOMAIN v THEN Quote(v.string) ELSE v.number

\* SQLite's json_extract(text, '$'): an error on malformed JSON; the minified
\* text of an array; the bare text of a string or a number
jsonExtract(text) ==
    LET r == JSONParseText(text)
    IN  IF ~r.ok THEN [ok |-> FALSE, text |-> <<>>]
        ELSE IF "array" \in DOMAIN r.value
        THEN [ok |-> TRUE,
              text |-> <<"[">> \o Join(MapSeq(ScalarText, r.value.array), <<",">>)
                         \o <<"]">>]
        ELSE IF "string" \in DOMAIN r.value
        THEN [ok |-> TRUE, text |-> r.value.string]
        ELSE [ok |-> TRUE, text |-> r.value.number]

\* buildFilters: (json_extract(meta.tags, '$') LIKE '%"tag"%' OR ...)
TagCondition(metaTags, tags) ==
    \E i \in 1..Len(tags) : IsSubstring(Quote(tags[i]), jsonExtract(metaTags).text)

\* the tags of a search result: JSON.parse, else split on spaces
resultTags(text) ==
    IF text = <<>> THEN Arr(<<>>)
    ELSE IF JSONParseText(text).ok THEN JSONParseText(text).value
    ELSE StringArray(SplitWords(text))

\* the rows of memory_index JOIN memory_metadata the MATCH selects
Touched(ix, terms) ==
    {row \in DOMAIN ix.fts : ix.meta[row.path] # Null /\ Matches(row, terms)}

\* SearchIndex.search(query, {tags}): ok is FALSE where it throws IndexError
search(ix, query, tags) ==
    LET terms == buildFTSQuery(query)
        rows == Touched(ix, terms)
        raises ==
            \/ terms = <<>>
            \/ /\ tags # <<>>
               /\ \E row \in rows : ~jsonExtract(ix.meta[row.path].tags).ok
        hits == {row \in rows :
                    tags = <<>> \/ TagCondition(ix.meta[row.path].tags, tags)}
    IN  IF raises THEN [ok |-> FALSE, results |-> {}, total |-> 0]
        ELSE [ok |-> TRUE,
              results |-> {[path |-> row.path,
                            tags |-> resultTags(ix.meta[row.path].tags)] :
                           row \in hits},
              total |-> SumOver(ix.fts, hits)]

Queries == {<<"t">>, <<"a">>, <<"7">>}
TagFilters == {<<>>, << <<"a">> >>}

\* MemoryTools.searchMemories(query, options)
SearchMemories(query, tags) ==
    LET r == search(Index(fts, meta), query, tags)
    IN  /\ result' = [op |-> "search", tool |-> "memory", ok |-> r.ok,
                      query |-> query, tags |-> tags, results |-> r.results,
                      total |-> r.total]
        /\ UNCHANGED <<disk, cache, calls, docs, fts, meta, clock>>

----------------------------------------------------------------------------
(* SearchIndex.validateAndFixIndex, and an index database whose metadata   *)
(* rows may hold tags joined by spaces (the tags column is TEXT, and both  *)
(* search and validateAndFixIndex provide for such rows).                  *)

\* a repair that writes the words back joined by spaces
C10_RejoinedTags(text) == tagsString(SplitWords(text))

\* JSON.stringify(row.tags.split(" ").filter(Boolean))
fixedTags(text) == JSONStringifyArray(SplitWords(text))

\* SELECT path, tags FROM memory_metadata WHERE tags IS NOT NULL AND tags != ''
\* and, of these, the rows JSON.parse throws on
InvalidRows(m) ==
    {p \in Paths : /\ m[p] # Null
                   /\ m[p].tags # <<>>
                   /\ ~JSONParseText(m[p].tags).ok}

validateAndFixIndex(m) ==
    [meta |-> [p \in Paths |->
                  IF p \in InvalidRows(m)
                  THEN [m[p] EXCEPT !.tags = fixedTags(m[p].tags)]
                  ELSE m[p]],
     fixed |-> Cardinality(InvalidRows(m))]

\* SearchIndex.validateAndFixIndex(); before: what the call before it
\* reported as fixed, -1 when the operation before was another one
ValidateAndFixIndex ==
    LET r == validateAndFixIndex(meta)
    IN  /\ meta' = r.meta
        /\ result' = [op |-> "fix", tool |-> "index", ok |-> TRUE,
                      fixed |-> r.fixed,
                      before |-> IF result.op = "fix" THEN result.fixed ELSE -1]
        /\ UNCHANGED <<disk, cache, calls, docs, fts, clock>>

\* the metadata row of a document with its tags joined by spaces
PlainMetaRow(memory) == [MetaRow(memory) EXCEPT !.tags = tagsString(memory.tags)]

RepairPaths == {p \in Paths : p[3][1] = 0}

RepairDoc(p, tags) == Memory(p[3][2], p[1], p[2], tags, 0, 0)

InitRepair ==
    /\ disk = InitDisk
    /\ cache = [t \in Tools |-> loadAll(NewCache, InitDisk)]
    /\ calls = [k \in CallIds |-> Idle]
    /\ clock = 0
    /\ result = Returned("init", "init", TRUE)
    /\ \E tg \in [RepairPaths -> TagLists], plain \in [RepairPaths -> BOOLEAN] :
        /\ docs = [p \in Paths |->
                      IF p \in RepairPaths THEN RepairDoc(p, tg[p]) ELSE NoFile]
        /\ fts = [row \in {FtsRow(p, RepairDoc(p, tg[p])) : p \in RepairPaths}
                    |-> 1]
        /\ meta = [p \in Paths |->
                      IF p \notin RepairPaths THEN Null
                      ELSE IF plain[p] THEN PlainMetaRow(RepairDoc(p, tg[p]))
                      ELSE MetaRow(RepairDoc(p, tg[p]))]

RepairNext ==
    \/ ValidateAndFixIndex
    \/ \E q \in Queries, tags \in TagFilters : SearchMemories(q, tags)
    \/ \E p \in RepairPaths : MemoryDelete(p)
    \/ \E p \in RepairPaths : ReindexMemory(p)
    \/ ReindexAll

SpecRepair == InitRepair /\ [][RepairNext]_vars

\* a tags column that decodes as a JSON array of strings
IsCanonical(text) ==
    /\ JSONParseText(text).ok
    /\ "array" \in DOMAIN JSONParseText(text).value
    /\ \A v \in TagSet(JSONParseText(text).value) : "string" \in DOMAIN v

\* a tags column that holds words joined by spaces
IsPlain(text) == ~IsCanonical(text) /\ text = tagsString(SplitWords(text))

\* C8: a search whose MATCH selects a row with space-joined tags in
\* memory_metadata does not throw, whatever the query and the tags filter,
\* and gives the words of the column as the tags of that row.
C8_SearchToleratesPlainTags ==
    result.op = "search"
    => \A row \in Touched(Index(fts, meta), buildFTSQuery(result.query)) :
          IsPlain(meta[row.path].tags)
          => /\ result.ok
             /\ \A r \in result.results :
                   r.path = row.path
                   => r.tags = StringArray(SplitWords(meta[row.path].tags))

\* C9: validateAndFixIndex rewrites exactly the metadata rows whose tags do
\* not decode as a JSON array of strings, reports how many they are, and
\* leaves the other rows and memory_index as they were.
C9_RepairRewritesExactlyBadRows ==
    [][result'.op = "fix"
       => LET bad == {p \in Paths : meta[p] # Null /\ ~IsCanonical(meta[p].tags)}
          IN  /\ result'.fixed = Cardinality(bad)
              /\ \A p \in bad : IsCanonical(meta'[p].tags)
              /\ \A p \in Paths \ bad : meta'[p] = meta[p]
              /\ fts' = fts]_vars

\* C10: a validateAndFixIndex that follows another reports 0 fixed rows and
\* leaves memory_metadata as the first one left it.
C10_SecondRepairChangesNothing ==
    [][(result.op = "fix" /\ result'.op = "fix")
       => (result'.fixed = 0 /\ meta' = meta)]_vars

\* a second run, after a first run that repaired rows
C10_RepairedThenRunAgain ==
    result.op = "fix" /\ result.before > 0 /\ result.fixed = 0

----------------------------------------------------------------------------
(* SearchIndex.findSimilar.  The default limit (5) is above the number of  *)
(* rows the model holds, so every selected row is returned; the rows are a *)
(* set, their order is not modelled.                                       *)

\* convertToSearchResults: row.tags ? JSON.parse(row.tags) : [], where
\* row.tags is the tags column of memory_index; ok is FALSE where it throws
convertToSearchResults(rows) ==
    IF \E row \in rows : row.tags # <<>> /\ ~JSONParseText(row.tags).ok
    THEN [ok |-> FALSE, results |-> {}]
    ELSE [ok |-> TRUE,
          results |-> {[path |-> row.path,
                        tags |-> IF row.tags = <<>> THEN Arr(<<>>)
                                 ELSE JSONParseText(row.tags).value] :
                       row \in rows}]

\* `"${tag}"` for the elements of the parsed tags
ArrayWords(value) ==
    [i \in 1..Len(value.array) |->
        IF "string" \in DOMAIN value.array[i] THEN value.array[i].string
        ELSE value.array[i].number]

\* the rows findSimilar selects for a metadata row and its parsed tags:
\* same context when there are no tags, else MATCH "t1" OR "t2" ...
SimilarRows(ix, relativePath, memory, value) ==
    IF value.array = <<>>
    THEN {row \in DOMAIN ix.fts : /\ row.context = memory.context
                                  /\ row.path # relativePath}
    ELSE {row \in DOMAIN ix.fts : /\ Matches(row, ArrayWords(value))
                                  /\ row.path # relativePath}

\* SearchIndex.findSimilar(memoryPath): ok is FALSE where it throws
\* IndexError.  JSON.parse(memory.tags || "[]") may throw; a number has no
\* length and no map; a string has a length and no map.
findSimilar(ix, relativePath) ==
    LET memory == ix.meta[relativePath]
        parsed == JSONParseText(IF memory.tags = <<>> THEN <<"[", "]">>
                                ELSE memory.tags)
    IN  IF memory = Null THEN [ok |-> TRUE, results |-> {}]
        ELSE IF ~parsed.ok THEN [ok |-> FALSE, results |-> {}]
        ELSE IF "number" \in DOMAIN parsed.value
        THEN [ok |-> FALSE, results |-> {}]
        ELSE IF "string" \in DOMAIN parsed.value
        THEN IF parsed.value.string = <<>>
             THEN convertToSearchResults(
                    SimilarRows(ix, relativePath, memory, Arr(<<>>)))
             ELSE [ok |-> FALSE, results |-> {}]
        ELSE convertToSearchResults(
                SimilarRows(ix, relativePath, memory, parsed.value))

\* MemoryTools.findSimilar(memoryPath)
FindSimilar(relativePath) ==
    LET r == findSimilar(Index(fts, meta), relativePath)
    IN  /\ result' = [op |-> "similar", tool |-> "memory", ok |-> r.ok,
                      path |-> relativePath, results |-> r.results]
        /\ UNCHANGED <<disk, cache, calls, docs, fts, meta, clock>>

SimilarNext ==
    \/ \E c \in Contexts, s \in Subcontexts, t \in Titles, tags \in IndexTagLists :
            MemoryCreate(c, s, t, tags)
    \/ \E p \in Paths : MemoryDelete(p)
    \/ \E p \in Paths : FindSimilar(p)
    \/ Tick

SpecSimilar == InitCache /\ [][SimilarNext]_vars

\* C11: for two indexed documents with the same two tags, findSimilar of the
\* first returns normally and its results hold the second.
C11_SimilarFindsSameTags ==
    result.op = "similar"
    => \A p \in Paths :
          (/\ p # result.path
           /\ docs[p] # NoFile /\ docs[result.path] # NoFile
           /\ meta[p] # Null /\ meta[result.path] # Null
           /\ Len(docs[result.path].tags) = 2
           /\ docs[p].tags = docs[result.path].tags)
          => /\ result.ok
             /\ \E r \in result.results : r.path = p

----------------------------------------------------------------------------
(* Overlapping reindexAll calls.  SearchIndex.reindexAll is async: the two *)
(* DELETEs run at once, then the call awaits the directory listing and,    *)
(* for every file, the read of the file; the INSERTs of one file run       *)
(* together.  Another call runs at every await.                            *)

\* DELETE FROM memory_index; DELETE FROM memory_metadata; then the call
\* waits for listFilesWithExtensions
StartReindexAll(k) ==
    /\ calls[k].pc = "idle"
    /\ fts' = EmptyMap
    /\ meta' = [p \in Paths |-> Null]
    /\ calls' = [calls EXCEPT ![k] = [pc |-> "list", todo |-> {}, indexed |-> 0]]
    /\ UNCHANGED <<disk, cache, docs, clock, result>>

\* the listing resolved: the files this call will index
ListDone(k) ==
    /\ calls[k].pc = "list"
    /\ calls' = [calls EXCEPT ![k] = [pc |-> "index",
                                      todo |-> listFilesWithExtensions(docs),
                                      indexed |-> 0]]
    /\ UNCHANGED <<disk, cache, docs, fts, meta, clock, result>>

\* await this.indexMemory(relativePath) for one file of the listing
IndexOne(k, relativePath) ==
    LET r == indexMemory(Index(fts, meta), docs, relativePath)
    IN  /\ calls[k].pc = "index"
        /\ relativePath \in calls[k].todo
        /\ fts' = r.ix.fts
        /\ meta' = r.ix.meta
        /\ calls' = [calls EXCEPT ![k].todo = @ \ {relativePath},
                                  ![k].indexed = IF r.ok THEN @ + 1 ELSE @]
        /\ UNCHANGED <<disk, cache, docs, clock, result>>

\* the loop is over: the call returns {indexed, errors}
ReindexDone(k) ==
    /\ calls[k].pc = "index"
    /\ calls[k].todo = {}
    /\ calls' = [calls EXCEPT ![k].pc = "done"]
    /\ result' = [op |-> "reindexAll", tool |-> "memory", ok |-> TRUE,
                  indexed |-> calls[k].indexed]
    /\ UNCHANGED <<disk, cache, docs, fts, meta, clock>>

\* a corpus of documents, indexed by a reindexAll that ran alone
InitReindex ==
    /\ disk = InitDisk
    /\ cache = [t \in Tools |-> loadAll(NewCache, InitDisk)]
    /\ calls = [k \in CallIds |-> Idle]
    /\ clock = 0
    /\ result = Returned("init", "init", TRUE)
    /\ \E tg \in [RepairPaths -> TagLists] :
        /\ docs = [p \in Paths |->
                      IF p \in RepairPaths THEN RepairDoc(p, tg[p]) ELSE NoFile]
        /\ fts = reindexAll(docs).fts
        /\ meta = reindexAll(docs).meta

ReindexNext ==
    \/ \E k \in CallIds : StartReindexAll(k)
    \/ \E k \in CallIds : ListDone(k)
    \/ \E k \in CallIds, p \in Paths : IndexOne(k, p)
    \/ \E k \in CallIds : ReindexDone(k)

SpecReindex == InitReindex /\ [][ReindexNext]_vars

\* C12: when the overlapping reindexAll calls have all returned, the index is
\* what one reindexAll over the documents gives.
C12_OverlappedReindexIsOneReindex ==
    (\A k \in CallIds : calls[k].pc = "done")
    => Index(fts, meta) = reindexAll(docs)

----------------------------------------------------------------------------
(* reindexAll over a corpus in which some files cannot be parsed           *)

\* the files a path of the corpus may hold: a document, a document whose
\* title is null, a file that cannot be parsed
CorpusFiles(p) ==
    {RepairDoc(p, <<>>), [RepairDoc(p, <<>>) EXCEPT !.title = NullText],
     Unreadable}

InitCorpus ==
    /\ disk = InitDisk
    /\ cache = [t \in Tools |-> loadAll(NewCache, InitDisk)]
    /\ calls = [k \in CallIds |-> Idle]
    /\ clock = 0
    /\ result = Returned("init", "init", TRUE)
    /\ fts = EmptyMap
    /\ meta = [p \in Paths |-> Null]
    /\ docs \in [Paths -> UNION {CorpusFiles(p) : p \in Paths} \cup {NoFile}]
    /\ \A p \in Paths : IF p \in RepairPaths THEN docs[p] \in CorpusFiles(p)
                                             ELSE docs[p] = NoFile

CorpusNext ==
    \/ Tick
    \/ ReindexAll
    \/ \E p \in RepairPaths, fm \in Partials(IndexTagLists) : MemoryUpdate(p, fm)
    \/ \E p \in RepairPaths : MemoryDelete(p)
    \/ \E p \in RepairPaths : ReindexMemory(p)

SpecCorpus == InitCorpus /\ [][CorpusNext]_vars

\* the documents indexMemory returns for
Indexable(ds) == {p \in Paths : Readable(ds[p]) /\ ds[p].title # NullText}

\* C13: reindexAll indexes every document that can be indexed, reports as
\* indexed the number of documents now in the index, and reports one error
\* for every document that cannot be indexed.
C13_ReindexAllSkipsFailures ==
    result.op = "reindexAll"
    => /\ {p \in Paths : meta[p] # Null} = Indexable(docs)
       /\ result.indexed = Cardinality({p \in Paths : meta[p] # Null})
       /\ result.errors = listFilesWithExtensions(docs) \ Indexable(docs)

\* a reindexAll over a corpus with a document that failed and one that did not
C13_ReindexedAroundFailure ==
    /\ result.op = "reindexAll"
    /\ result.errors # {}
    /\ result.indexed > 0

\* SearchIndex.getStats(): the aggregates over memory_metadata
getStats(ix) ==
    LET rows == {p \in Paths : ix.meta[p] # Null}
    IN  [total_memories |-> Cardinality(rows),
         total_contexts |-> Cardinality({ix.meta[p].context : p \in rows}),
         total_subcontexts |-> Cardinality({ix.meta[p].subcontext : p \in rows}),
         last_update |->
             IF rows = {} THEN Null
             ELSE CHOOSE u \in {ix.meta[p].updated_at : p \in rows} :
                      \A p \in rows : ix.meta[p].updated_at <= u]

\* C14: a reindexAll that follows a reindexAll, with no document changed in
\* between, leaves getStats() (documents, contexts, subcontexts, last update)
\* and the result of every search as the first left them.
C14_SecondReindexSameStatsAndSearch ==
    result.op = "reindexAll"
    => LET first == Index(fts, meta)
           second == reindexAllOver(first, docs)
       IN  /\ getStats(second) = getStats(first)
           /\ \A query \in Queries, tags \in TagFilters :
                  search(second, query, tags) = search(first, query, tags)

\* a reindexAll has run over a corpus with something to count and to find
C14_ReindexedCorpusWithHits ==
    /\ result.op = "reindexAll"
    /\ getStats(Index(fts, meta)).total_memories = Cardinality(RepairPaths)
    /\ getStats(Index(fts, meta)).last_update = MaxClock
    /\ search(Index(fts, meta), <<"a">>, <<"a">>).total > 0

----------------------------------------------------------------------------
(* MaintenanceTools and the link checks of LinksTools, on a project whose  *)
(* link tables were written before the server started.  The root's         *)
(* project_name and version and the memories of a submemory are not in the *)
(* model, so the checks on them report nothing.                            *)

\* caminho_memoria of the links of this part
MaintTargets == {<<"p">>, <<"q">>}

\* path.join(memoryPath, link.caminho_memoria): the document the text names
linkedFile(target) ==
    IF target = <<"p">> THEN memoryPath(<<"c">>, <<"s">>, generateMemoryFileName(<<"t">>, 0))
    ELSE memoryPath(<<"k">>, <<"s">>, generateMemoryFileName(<<"t">>, 0))

\* FileSystemUtils.getFileSize: fs.stat in a try whose catch returns 0, so
\* it throws for no path; a document of the model is never empty
getFileSize(ds, target) ==
    [threw |-> FALSE, size |-> IF ds[linkedFile(target)] = NoFile THEN 0 ELSE 1]

BrokenLink(target) == [error |-> "Broken link", path |-> target]
EmptyFile(target) == [warning |-> "Empty file", path |-> target]

LinkSet(links) == {links[i] : i \in 1..Len(links)}

\* MaintenanceTools.validateSystem on the loaded cache c
validateSystem(c, ds, ix) ==
    LET checked == UNION {LinkSet(getLinks(c, contextName)) :
                            contextName \in DOMAIN c.mainMemory.contexts}
        errors == {BrokenLink(link.caminho_memoria) :
                     link \in {l \in checked :
                                 getFileSize(ds, l.caminho_memoria).threw}}
        warnings ==
            {EmptyFile(link.caminho_memoria) :
                link \in {l \in checked :
                            /\ ~getFileSize(ds, l.caminho_memoria).threw
                            /\ getFileSize(ds, l.caminho_memoria).size = 0}}
            \cup (IF getStats(ix).total_memories = 0
                  THEN {[warning |-> "Search index appears to be empty",
                         path |-> <<>>]}
                  ELSE {})
    IN  [valid |-> errors = {}, errors |-> errors, warnings |-> warnings]

\* LinksTools.linksValidate(context)
linksValidate(c, ds, context) ==
    LET links == LinkSet(getLinks(c, context))
        errors == {l.caminho_memoria : l \in {x \in links :
                        getFileSize(ds, x.caminho_memoria).threw}}
        broken == {l.caminho_memoria : l \in {x \in links :
                        \/ getFileSize(ds, x.caminho_memoria).threw
                        \/ getFileSize(ds, x.caminho_memoria).size = 0}}
    IN  [valid |-> errors = {}, errors |-> errors, broken |-> broken]

Cleaned(c, d, removed) == [c |-> c, d |-> d, removed |-> removed]

\* for (let i = links.length - 1; i >= 0; i--): removeLink(context, i) for
\* every link getFileSize throws on
RECURSIVE removeBrokenFrom(_, _, _, _, _)
removeBrokenFrom(c, d, ds, context, i) ==
    IF i = 0 THEN Cleaned(c, d, 0)
    ELSE IF getFileSize(ds, getLinks(c, context)[i].caminho_memoria).threw
    THEN LET r == removeLink(c, d, context, i, TRUE)
             rest == removeBrokenFrom(r.c, r.d, ds, context, i - 1)
         IN  Cleaned(rest.c, rest.d, rest.removed + 1)
    ELSE removeBrokenFrom(c, d, ds, context, i - 1)

\* the loop over the contexts S, skipping those skip holds for
RECURSIVE cleanupEach(_, _, _, _, _)
cleanupEach(c, d, ds, S, skip) ==
    IF S = {} THEN Cleaned(c, d, 0)
    ELSE LET contextName == CHOOSE x \in S : TRUE
             one == IF contextName \in skip THEN Cleaned(c, d, 0)
                    ELSE removeBrokenFrom(c, d, ds, contextName,
                                          Len(getLinks(c, contextName)))
             rest == cleanupEach(one.c, one.d, ds, S \ {contextName}, skip)
         IN  Cleaned(rest.c, rest.d, one.removed + rest.removed)

\* MaintenanceTools.cleanupBrokenLinks: every context of the root
cleanupBrokenLinks(c, d, ds) ==
    cleanupEach(c, d, ds, DOMAIN c.mainMemory.contexts, {})

\* LinksTools.linksCleanupBroken: the contexts that have a submemory, and of
\* them those linksValidate finds not valid
linksCleanupBroken(c, d, ds) ==
    LET S == {p[1] : p \in DOMAIN c.submemories}
    IN  cleanupEach(c, d, ds, S, {x \in S : linksValidate(c, ds, x).valid})

MaintTools == Tools \cup {"maintenance"}

ValidateSystem ==
    LET c0 == EnsureReady(cache["maintenance"], disk)
        r == validateSystem(c0, docs, Index(fts, meta))
    IN  /\ cache' = [cache EXCEPT !["maintenance"] = c0]
        /\ result' = [op |-> "validate", tool |-> "maintenance", ok |-> TRUE,
                      valid |-> r.valid, errors |-> r.errors,
                      warnings |-> r.warnings]
        /\ UNCHANGED <<disk, calls, docs, fts, meta, clock>>

CleanupResult(tool, before, r) ==
    [op |-> "cleanup", tool |-> tool, ok |-> TRUE, removed |-> r.removed,
     before |-> before]

CleanupBrokenLinks ==
    LET c0 == EnsureReady(cache["maintenance"], disk)
        r == cleanupBrokenLinks(c0, disk, docs)
    IN  /\ cache' = [cache EXCEPT !["maintenance"] = r.c]
        /\ disk' = r.d
        /\ result' = CleanupResult("maintenance", disk.links, r)
        /\ UNCHANGED <<calls, docs, fts, meta, clock>>

LinksCleanupBroken ==
    LET c0 == EnsureReady(cache["links"], disk)
        r == linksCleanupBroken(c0, disk, docs)
    IN  /\ cache' = [cache EXCEPT !["links"] = r.c]
        /\ disk' = r.d
        /\ result' = CleanupResult("links", disk.links, r)
        /\ UNCHANGED <<calls, docs, fts, meta, clock>>

\* the link tables a project may hold: up to MaxLinks links of context "c"
MaintLinks ==
    {<<>>} \cup {<<Link(<<"c">>, <<"s">>, <<"d">>, p)>> : p \in MaintTargets}
    \cup {<<Link(<<"c">>, <<"s">>, <<"d">>, p), Link(<<"c">>, <<"s">>, <<"d">>, q)>> :
            p \in MaintTargets, q \in MaintTargets}

MaintMemory ==
    [contexts |-> [n \in {<<"c">>} |-> ContextRec(n, 1)], last_updated |-> 0]

InitMaint ==
    /\ \E links \in MaintLinks, subs \in [SubPaths -> SubValues \cup {NoFile}] :
          disk = [main |-> JSONStringify(MaintMemory),
                  links |-> [c \in Contexts |->
                               IF c = <<"c">> THEN [text |-> generateCSV(links)]
                               ELSE NoFile],
                  subs |-> [p \in SubPaths |->
                              IF subs[p] = NoFile THEN NoFile
                              ELSE JSONStringify(subs[p])]]
    /\ cache = [t \in MaintTools |-> loadAll(NewCache, disk)]
    /\ calls = [k \in CallIds |-> Idle]
    /\ \E present \in SUBSET MaintTargets :
          docs = [p \in Paths |->
                    IF \E t \in present : linkedFile(t) = p
                    THEN RepairDoc(p, <<>>) ELSE NoFile]
    /\ fts = reindexAll(docs).fts
    /\ meta = reindexAll(docs).meta
    /\ clock = 0
    /\ result = Returned("init", "init", TRUE)

MaintNext ==
    \/ ValidateSystem
    \/ CleanupBrokenLinks
    \/ LinksCleanupBroken
    \/ \E t \in MaintTargets : MemoryDelete(linkedFile(t))
    \/ \E c \in LinkContexts, s \in Subcontexts : LinksDelete(c, s, TRUE)

SpecMaint == InitMaint /\ [][MaintNext]_vars

\* the links the maintenance tool's cache holds under the contexts of the root
MaintainedLinks ==
    UNION {LinkSet(getLinks(cache["maintenance"], c)) :
             c \in DOMAIN cache["maintenance"].mainMemory.contexts}

Missing(link) == docs[linkedFile(link.caminho_memoria)] = NoFile

\* C15: after validateSystem, every link whose caminho_memoria names a
\* missing file is among the errors as a broken link, and valid is FALSE.
C15_MissingFileIsBrokenLinkError ==
    result.op = "validate"
    => \A link \in MaintainedLinks :
          Missing(link)
          => /\ BrokenLink(link.caminho_memoria) \in result.errors
             /\ ~result.valid

TableOn(tables, c) ==
    IF tables[c] = NoFile THEN <<>> ELSE parseCSV(tables[c].text)

\* C16: after a cleanup the tables on disk hold exactly the links of before
\* whose file exists, and removed is the number of links that went.
C16_CleanupRemovesExactlyMissing ==
    result.op = "cleanup"
    => /\ \A c \in Contexts :
             LET before == TableOn(result.before, c)
                 after == TableOn(disk.links, c)
             IN  /\ \A i \in 1..Len(after) : ~Missing(after[i])
                 /\ \A i \in 1..Len(before) :
                       ~Missing(before[i]) => before[i] \in LinkSet(after)
       /\ \A c \in LinkContexts :
             result.removed = Len(TableOn(result.before, c))
                              - Len(TableOn(disk.links, c))

----------------------------------------------------------------------------
(* remove_context on a project with links, submemories and documents *)

RemoveNext ==
    \/ \E n \in Contexts : MemoryMainAddContext(n, 1, TRUE, TRUE)
    \/ \E n \in Contexts : MemoryMainRemoveContext(n, TRUE)
    \/ \E c \in LinkContexts, s \in Subcontexts, p \in LinkTargets :
            LinksCreate(c, s, <<"d">>, p, TRUE)
    \/ \E p \in SubPaths : SubmemoryCreate(p, [priority |-> 1], TRUE)
    \/ \E c \in Contexts, s \in Subcontexts, t \in Titles :
            MemoryCreate(c, s, t, <<>>)

SpecRemove == InitCache /\ [][RemoveNext]_vars

\* nothing of context c on disk, in a cache or in the search index
NothingRemains(c) ==
    /\ c \notin DOMAIN JSONParse(disk.main).contexts
    /\ disk.links[c] = NoFile
    /\ \A p \in SubPaths : p[1] = c => disk.subs[p] = NoFile
    /\ \A p \in Paths : p[1] = c => docs[p] = NoFile
    /\ \A t \in Tools :
          /\ getLinks(cache[t], c) = <<>>
          /\ \A p \in SubPaths : p[1] = c => getSubmemory(cache[t], p) = Null
    /\ \A p \in Paths : p[1] = c => meta[p] = Null /\ CountFtsPath(fts, p) = 0

\* C17: a step of memoryMainRemoveContext(c) that returns true leaves nothing
\* of c: not in the root, no link table on disk and no links in a cache, no
\* submemory and no document on disk, in a cache or in the search index.
C17_RemoveContextLeavesNothing ==
    [][\A c \in Contexts :
          (/\ result'.op = "context" /\ result'.ok
           /\ c \in DOMAIN cache["mainMemory"].mainMemory.contexts
           /\ c \notin DOMAIN cache'["mainMemory"].mainMemory.contexts)
          => NothingRemains(c)']_vars

----------------------------------------------------------------------------
(* Links addressed by the names the caller typed *)

\* names as typed, all of which normalize to "c" and to "s"
RawContexts == {<<"c">>, <<"C">>, <<" ", "c">>}
RawSubcontexts == {<<"s">>, <<"S">>}

\* LinksTools.linksRead(context, subcontext) on the loaded cache c
linksRead(c, context, subcontext) ==
    LET normalizedSubcontext == normalizeContextName(subcontext)
        links == getLinks(c, normalizeContextName(context))
    IN  {links[i] : i \in {j \in 1..Len(links) :
                             links[j].subcontexto = normalizedSubcontext}}

LinksRead(context, subcontext) ==
    LET c0 == EnsureReady(cache["links"], disk)
    IN  /\ cache' = [cache EXCEPT !["links"] = c0]
        /\ result' = [op |-> "linksRead", tool |-> "links", ok |-> TRUE,
                      links |-> linksRead(c0, context, subcontext)]
        /\ UNCHANGED <<disk, calls, docs, clock>> /\ indexUnchanged

RawLinksNext ==
    \/ \E c \in RawContexts, s \in RawSubcontexts, d \in Descriptions,
          p \in MaintTargets : LinksCreate(c, s, d, p, TRUE)
    \/ \E c \in RawContexts, s \in RawSubcontexts, d \in Descriptions :
            LinksUpdate(c, s, d, TRUE)
    \/ \E c \in RawContexts, s \in RawSubcontexts : LinksDelete(c, s, TRUE)
    \/ \E c \in RawContexts, s \in RawSubcontexts : LinksRead(c, s)
    \/ Tick

SpecRawLinks == InitCache /\ [][RawLinksNext]_vars

\* C18: after linksCreate returns for a raw context and subcontext name, the
\* link is found by linksRead and by the lookup of linksUpdate and linksDelete
\* given the same raw names.
C18_RawNameFindsLink ==
    (result.op = "links" /\ result.call = "create" /\ result.ok)
    => /\ linksRead(cache["links"], result.context, result.subcontext) # {}
       /\ FindLink(getLinks(cache["links"], result.context),
                   result.context, result.subcontext) # 0

----------------------------------------------------------------------------
(* normalizeContextName and generateMemoryFileName on typed names *)

MaxNameLen == 3      \* characters of a typed name
MaxApply == 2        \* times the normalization is applied in a row

NameChars == {"a", "A", "á", " ", "-", "_", "!"}

RECURSIVE NamesUpTo(_)
NamesUpTo(n) ==
    IF n = 0 THEN {<<>>}
    ELSE LET shorter == NamesUpTo(n - 1)
         IN  shorter \cup {Append(s, ch) : s \in shorter, ch \in NameChars}

\* "Análise do Módulo"
AccentedTitle ==
    <<"A", "n", "á", "l", "i", "s", "e", " ", "d", "o", " ",
      "M", "ó", "d", "u", "l", "o">>

TypedNames == NamesUpTo(MaxNameLen) \cup {AccentedTitle}

Named(op, raw, text, times) ==
    [op |-> op, tool |-> "names", ok |-> isValidContextName(text), raw |-> raw,
     text |-> text, times |-> times]

InitNames ==
    /\ disk = InitDisk
    /\ cache = [t \in Tools |-> loadAll(NewCache, InitDisk)]
    /\ calls = [k \in CallIds |-> Idle]
    /\ docs = [p \in Paths |-> NoFile]
    /\ fts = EmptyMap
    /\ meta = [p \in Paths |-> Null]
    /\ clock = 0
    /\ \E name \in TypedNames : result = Named("typed", name, name, 0)

\* normalizeContextName of the text at hand
NormalizeContextName ==
    /\ result.op \in {"typed", "normalized"}
    /\ result.times < MaxApply
    /\ result' = Named("normalized", result.text,
                       normalizeContextName(result.text), result.times + 1)
    /\ UNCHANGED <<disk, cache, calls, docs, fts, meta, clock>>

\* the slug generateMemoryFileName makes of a typed title
GenerateMemoryFileName ==
    /\ result.op = "typed"
    /\ result' = Named("slug", result.text,
                       generateMemoryFileName(result.text, clock)[2], 1)
    /\ UNCHANGED <<disk, cache, calls, docs, fts, meta, clock>>

NamesNext == NormalizeContextName \/ GenerateMemoryFileName

SpecNames == InitNames /\ [][NamesNext]_vars

\* the base letter of an accented letter
C19_BaseLetter(ch) ==
    CASE ch = "á" -> "a" [] ch = "Á" -> "A" [] ch = "ó" -> "o" [] ch = "Ó" -> "O"
      [] OTHER -> ch

\* C19: the normalization and the slug of a typed name are those of the name
\* with every accented letter replaced by its base letter: accents are folded,
\* not dropped ("Análise do Módulo" gives "analise-do-modulo").
C19_AccentsFoldToBase ==
    /\ (result.op = "normalized" /\ result.times = 1)
       => result.text = normalizeContextName(MapSeq(C19_BaseLetter, result.raw))
    /\ result.op = "slug"
       => result.text = slug(MapSeq(C19_BaseLetter, result.raw))

\* C20: normalizeContextName applied to a text it returned returns that text.
C20_NormalizeIsIdempotent ==
    result.op = "normalized" => normalizeContextName(result.text) = result.text

\* a name normalized twice whose normal form keeps a hyphen
C20_NormalizedTwice ==
    /\ result.op = "normalized"
    /\ result.times = 2
    /\ result.raw = result.text
    /\ \E i \in 1..Len(result.text) : result.text[i] = "-"

\* the typed name holds a character that, lower-cased and with its accent
\* folded, is one of [a-z0-9_-]
C21_HasIdentifierChar(name) ==
    \E i \in 1..Len(name) : IsNameChar(ToLowerCase(C19_BaseLetter(name[i])))

\* C21: the normalization of a non-empty typed name that holds an identifier
\* character (after lower-casing and folding) is non-empty and
\* isValidContextName accepts it.
C21_NormalizedNameIsValid ==
    (/\ result.op = "normalized" /\ result.times = 1
     /\ result.raw # <<>>
     /\ C21_HasIdentifierChar(result.raw))
    => /\ result.text # <<>>
       /\ isValidContextName(result.text)

----------------------------------------------------------------------------
(* The contexts of the root, under the names the caller typed *)

\* context names as typed
RootNames == {<<>>, <<" ">>, <<"c">>, <<"C">>, <<"c", " ", "k">>, <<"c", "/">>}

\* the "contexts" sections memory_main_update is called with
RootInputs ==
    {[n \in S |-> ContextRec(n, p)] :
        S \in SUBSET {<<"c">>, <<"á">>}, p \in Priorities}

RootNext ==
    \/ \E n \in RootNames, p \in Priorities : MemoryMainAddContext(n, p, TRUE, TRUE)
    \/ \E data \in RootInputs : MemoryMainUpdate(data, TRUE)
    \/ \E n \in {<<"c">>, <<"C">>} : MemoryMainRemoveContext(n, TRUE)
    \/ Tick

SpecRoot == InitCache /\ [][RootNext]_vars

\* the contexts of main.sjson
RootContexts == JSONParse(disk.main).contexts

\* C22: every context name stored in the root is non-empty and made of the
\* characters [a-z0-9_-] only (the names are the keys of one object, which
\* makes them unique).
C22_RootNamesAreNormalized ==
    \A name \in DOMAIN RootContexts : isValidContextName(name)

\* C24: memoryMainAddContext called with a name the root already holds, or
\* with an empty name, fails, and the step leaves the root, the link tables
\* and every cache as they were.
C24_RejectedAddChangesNothing ==
    [][(/\ result'.op = "addContext"
        /\ \/ Trim(result'.name) = <<>>
           \/ result'.name \in DOMAIN RootContexts)
       => /\ ~result'.ok
          /\ disk' = disk
          /\ cache' = cache]_vars

\* an add was refused for a context the root holds with its own priority
C24_RefusedExistingContext ==
    /\ result.op = "addContext"
    /\ ~result.ok
    /\ result.name \in DOMAIN RootContexts
    /\ RootContexts[result.name].priority = 2
    /\ result.name \in DOMAIN disk.links
    /\ disk.links[result.name] # NoFile

----------------------------------------------------------------------------
(* Write operations called with input the entity's rules exclude *)

\* a description of 201 characters
LongDescription == [i \in 1..(DescriptionLimit + 1) |-> "d"]

\* z.number().min(1).max(10)
ValidPriorities == 1..10

InvalidNext ==
    \/ \E n \in {<<>>, <<"c">>}, p \in {1, 11} : MemoryMainAddContext(n, p, TRUE, TRUE)
    \/ \E c \in {<<"c">>, <<"!">>, <<"-">>}, s \in {<<"s">>, <<" ">>},
          d \in {<<"d">>, LongDescription}, p \in MaintTargets :
            LinksCreate(c, s, d, p, TRUE)
    \/ \E c \in LinkContexts, s \in Subcontexts, d \in {<<"e">>, LongDescription} :
            LinksUpdate(c, s, d, TRUE)
    \/ \E c \in LinkContexts, s \in Subcontexts : LinksDelete(c, s, TRUE)
    \/ Tick

SpecInvalid == InitCache /\ [][InvalidNext]_vars

\* the call that gave result was given input the rules exclude
InvalidInput(r) ==
    \/ /\ r.op = "addContext"
       /\ Trim(r.name) = <<>> \/ r.priority \notin ValidPriorities
    \/ /\ r.op = "links" /\ r.call = "create"
       /\ \/ normalizeContextName(r.context) = <<>>
          \/ normalizeContextName(r.subcontext) = <<>>
          \/ Len(r.description) > DescriptionLimit
    \/ /\ r.op = "links" /\ r.call = "update"
       /\ Len(r.description) > DescriptionLimit

\* C23: a create_context, create_link or links_update step given an empty
\* name, a priority outside 1..10 or a description of more than 200
\* characters fails, and leaves the disk and every cache as they were.
C23_InvalidInputFailsUnchanged ==
    [][InvalidInput(result')
       => /\ ~result'.ok
          /\ disk' = disk
          /\ cache' = cache]_vars

----------------------------------------------------------------------------
(* SearchIndex.search with its structural filters, its facets and its      *)
(* pages.  The documents of the model have no importance and are equally   *)
(* relevant to a query they match, so every ORDER BY bm25 is a tie.        *)

SearchOptions(contexts, subcontexts, tags, limit, offset) ==
    [contexts |-> contexts, subcontexts |-> subcontexts, tags |-> tags,
     limit |-> limit, offset |-> offset]

\* buildFilters: the conditions joined by AND; an empty list sets no condition
filtersHold(ix, row, options) ==
    /\ options.contexts = {} \/ row.context \in options.contexts
    /\ options.subcontexts = {} \/ row.subcontext \in options.subcontexts
    /\ options.tags = <<>> \/ TagCondition(ix.meta[row.path].tags, options.tags)

\* the rows the WHERE of searchSQL and countSQL selects
Hits(ix, query, options) ==
    {row \in Touched(ix, buildFTSQuery(query)) : filtersHold(ix, row, options)}

\* the orders in which SQLite may return the selected rows: ORDER BY
\* bm25(memory_index) says nothing about rows of equal score
Orders(ix, rows) ==
    {order \in [1..SumOver(ix.fts, rows) -> rows] :
        \A row \in rows :
            Cardinality({i \in DOMAIN order : order[i] = row}) = ix.fts[row]}

\* LIMIT ? OFFSET ?
Page(order, limit, offset) ==
    SubSeq(order, offset + 1,
           IF offset + limit < Len(order) THEN offset + limit ELSE Len(order))

\* results.map((row) => ({path, context, subcontext, tags, ...}))
SearchResult(ix, row) ==
    [path |-> row.path, context |-> row.context, subcontext |-> row.subcontext,
     tags |-> resultTags(ix.meta[row.path].tags)]

\* SELECT m.<field>, COUNT(*) FROM memory_index m WHERE memory_index MATCH ?
\* GROUP BY m.<field>: no join, and none of the current filters
facetCounts(ix, query, field) ==
    LET rows == {row \in DOMAIN ix.fts : Matches(row, buildFTSQuery(query))}
    IN  [v \in {row[field] : row \in rows} |->
            SumOver(ix.fts, {row \in rows : row[field] = v})]

\* SearchIndex.getFacets(query, currentFilters)
getFacets(ix, query, options) ==
    [contexts |-> facetCounts(ix, query, "context"),
     subcontexts |-> facetCounts(ix, query, "subcontext")]

\* SearchIndex.search(query, options), the rows coming in the given order;
\* ok is FALSE where it throws IndexError
searchWithOptions(ix, query, options, order) ==
    LET terms == buildFTSQuery(query)
        raises ==
            \/ terms = <<>>
            \/ /\ options.tags # <<>>
               /\ \E row \in Touched(ix, terms) :
                      ~jsonExtract(ix.meta[row.path].tags).ok
        page == Page(order, options.limit, options.offset)
    IN  IF raises THEN [ok |-> FALSE, results |-> <<>>, total |-> 0,
                        facets |-> [contexts |-> EmptyMap, subcontexts |-> EmptyMap]]
        ELSE [ok |-> TRUE,
              results |-> [i \in DOMAIN page |-> SearchResult(ix, page[i])],
              total |-> Len(order),
              facets |-> getFacets(ix, query, options)]

ContextFilters == {{}, {<<"c">>}}
PageLimits == {1, 2}
PageOffsets == {0, 1}

\* MemoryTools.searchMemories(query, options) with filters and a page
SearchPage(query, options) ==
    \E order \in Orders(Index(fts, meta), Hits(Index(fts, meta), query, options)) :
        LET r == searchWithOptions(Index(fts, meta), query, options, order)
        IN  /\ result' = [op |-> "searchPage", tool |-> "memory", ok |-> r.ok,
                          query |-> query, options |-> options,
                          results |-> r.results, total |-> r.total,
                          facets |-> r.facets]
            /\ UNCHANGED <<disk, cache, calls, docs, fts, meta, clock>>

\* the pages at offset 0, limit, 2 x limit, ... until one comes back short
RECURSIVE PagesFrom(_, _, _)
PagesFrom(order, limit, offset) ==
    IF offset >= Len(order) THEN <<>>
    ELSE <<Page(order, limit, offset)>> \o PagesFrom(order, limit, offset + limit)

\* searchMemories called for the consecutive pages of one query
ReadPages(query, limit) ==
    LET ix == Index(fts, meta)
        options == SearchOptions({}, {}, <<>>, limit, 0)
    IN  /\ buildFTSQuery(query) # <<>>
        /\ \E order \in Orders(ix, Hits(ix, query, options)) :
              result' = [op |-> "readPages", tool |-> "memory", ok |-> TRUE,
                         query |-> query, limit |-> limit,
                         pages |-> MapSeq(LAMBDA page :
                                       [i \in DOMAIN page |-> page[i].path],
                                     PagesFrom(order, limit, 0))]
        /\ UNCHANGED <<disk, cache, calls, docs, fts, meta, clock>>

SearchNext ==
    \/ \E c \in Contexts, s \in Subcontexts, t \in Titles, tags \in IndexTagLists :
            MemoryCreate(c, s, t, tags)
    \/ \E p \in Paths : MemoryDelete(p)
    \/ \E q \in Queries, c \in ContextFilters, tags \in TagFilters,
          l \in PageLimits, o \in PageOffsets :
            SearchPage(q, SearchOptions(c, {}, tags, l, o))
    \/ \E q \in Queries, l \in PageLimits : ReadPages(q, l)
    \/ Tick

SpecSearch == InitCache /\ [][SearchNext]_vars

\* the documents that match the query and satisfy every filter
MatchedDocs(query, options) ==
    {row.path : row \in Hits(Index(fts, meta), query, options)}

\* C25: every result of a search matches the query and satisfies all the
\* filters supplied, and total is the number of distinct documents that do,
\* whatever the limit and the offset.
C25_ResultsMatchAndTotalCountsDocs ==
    (result.op = "searchPage" /\ result.ok)
    => /\ \A i \in DOMAIN result.results :
             result.results[i].path \in MatchedDocs(result.query, result.options)
       /\ result.total = Cardinality(MatchedDocs(result.query, result.options))

\* memory_index holds one row for each document of memory_metadata
OneRowPerDocument ==
    /\ \A row \in DOMAIN fts : fts[row] = 1 /\ meta[row.path] # Null
    /\ \A r1, r2 \in DOMAIN fts : r1.path = r2.path => r1 = r2

\* the count a facet gives for a value, 0 where it has no entry
FacetCount(facet, v) == IF v \in DOMAIN facet THEN facet[v] ELSE 0

\* C26: each facet entry of a search is the number of documents of that
\* call's matched set (the set total counts) with that value, never a count
\* over the whole corpus.
C26_FacetsCountMatchedSet ==
    (result.op = "searchPage" /\ result.ok /\ OneRowPerDocument)
    => /\ \A c \in Contexts :
             FacetCount(result.facets.contexts, c)
                 = Cardinality({p \in MatchedDocs(result.query, result.options) :
                                    p[1] = c})
       /\ \A s \in Subcontexts :
             FacetCount(result.facets.subcontexts, s)
                 = Cardinality({p \in MatchedDocs(result.query, result.options) :
                                    p[2] = s})

\* paths compared as the strings they are: the context first, then the
\* time the file name begins with
PathRank(p) == (IF p[1] = <<"c">> THEN 0 ELSE 1) * (MaxClock + 2) + p[3][1]

\* the paths of the pages, one after the other
RECURSIVE Concat(_)
Concat(pages) == IF pages = <<>> THEN <<>> ELSE Head(pages) \o Concat(Tail(pages))

\* C27: the pages of one query hold the equally relevant documents in the
\* order of their paths, so that consecutive pages return every matching
\* document exactly once.
C27_PagesHoldEachDocumentOnce ==
    (result.op = "readPages" /\ OneRowPerDocument)
    => LET listed == Concat(result.pages)
           matched == MatchedDocs(result.query,
                                  SearchOptions({}, {}, <<>>, result.limit, 0))
       IN  /\ \A p \in matched :
                 Cardinality({i \in DOMAIN listed : listed[i] = p}) = 1
           /\ \A i, j \in DOMAIN listed :
                 i < j => PathRank(listed[i]) < PathRank(listed[j])

----------------------------------------------------------------------------
(* MemoryCache.loadAll over files that may be missing or damaged *)

\* the content of a JSON file that JSON.parse rejects
Corrupt == [corrupt |-> TRUE]

\* link tables that are not CSV of links: no header line, and a row of two
\* fields under the header
CorruptTables ==
    {<<"x">>, Join(CsvHeaders, <<",">>) \o <<"\n", "c", ",", "s">>}

GoodTable == generateCSV(<<Link(<<"c">>, <<"s">>, <<"d">>, <<"p">>)>>)

LoadDisks ==
    [main : {NoFile, JSONStringify(InitialMemory), Corrupt},
     links : [Contexts -> {NoFile, [text |-> GoodTable]}
                            \cup {[text |-> t] : t \in CorruptTables}],
     subs : [SubPaths -> {NoFile, JSONStringify([priority |-> 1]), Corrupt}]]

\* loadAll with its catch: ok is FALSE where it throws CacheError, and the
\* cache is then as far as the loading came.  loadMainMemory and
\* loadSubmemory throw on what JSON.parse rejects; parseCSV rejects nothing.
tryLoadAll(c, d) ==
    IF d.main = Corrupt THEN [ok |-> FALSE, cache |-> c]
    ELSE IF \E p \in SubPaths : d.subs[p] = Corrupt
         THEN [ok |-> FALSE, cache |-> loadAllLinks(loadMainMemory(c, d), d)]
         ELSE [ok |-> TRUE, cache |-> loadAll(c, d)]

\* a tool's cache.loadAll()
LoadAll(t) ==
    LET r == tryLoadAll(cache[t], disk)
    IN  /\ cache' = [cache EXCEPT ![t] = r.cache]
        /\ result' = [op |-> "loadAll", tool |-> t, ok |-> r.ok,
                      ready |-> isReady(r.cache)]
        /\ UNCHANGED <<disk, calls, docs, fts, meta, clock>>

InitLoad ==
    /\ disk \in LoadDisks
    /\ cache = [t \in Tools |-> NewCache]
    /\ calls = [k \in CallIds |-> Idle]
    /\ docs = [p \in Paths |-> NoFile]
    /\ fts = EmptyMap
    /\ meta = [p \in Paths |-> Null]
    /\ clock = 0
    /\ result = [op |-> "init", tool |-> "init", ok |-> TRUE]

LoadNext == \E t \in {"mainMemory", "links"} : LoadAll(t)

SpecLoad == InitLoad /\ [][LoadNext]_vars

\* a file that is present and is not what its reader expects
SomeFileCorrupt ==
    \/ disk.main = Corrupt
    \/ \E c \in Contexts : disk.links[c] \in {[text |-> t] : t \in CorruptTables}
    \/ \E p \in SubPaths : disk.subs[p] = Corrupt

\* C28: load_all succeeds and reports absence (not ready, no exception)
\* when the root file is missing, and fails when a file it reads (root, link
\* table, submemory) is present but corrupt.
C28_LoadAllFailsOnCorruptFile ==
    result.op = "loadAll"
    => /\ (disk.main = NoFile /\ ~SomeFileCorrupt) => (result.ok /\ ~result.ready)
       /\ SomeFileCorrupt => ~result.ok

----------------------------------------------------------------------------
(* SubmemoryTools: the memory references of a submemory *)

\* MemoryReference; the title is the file name without its time prefix
MemoryReference(refPath, summary) ==
    [title |-> refPath[3][2], path |-> refPath, summary |-> summary]

Summaries == {<<"x">>, <<"y">>}
RefPaths == {p \in Paths : p[3][1] = 0}

\* the memories a caller passes in the data of create and update
MemoryLists ==
    {<<>>}
    \cup {<<MemoryReference(p, <<"x">>)>> : p \in RefPaths}
    \cup {<<MemoryReference(p, <<"x">>), MemoryReference(q, <<"y">>)>> :
            p \in RefPaths, q \in RefPaths}

SubData == {[priority |-> 1, memories |-> ms] : ms \in MemoryLists}

\* submemory.memories.findIndex((m) => m.path === memoryPath), 0 for -1
findIndex(memories, refPath) ==
    IF \E i \in DOMAIN memories : memories[i].path = refPath
    THEN CHOOSE i \in DOMAIN memories :
            /\ memories[i].path = refPath
            /\ \A j \in 1..(i - 1) : memories[j].path # refPath
    ELSE 0

\* the existing reference is replaced, a new one is pushed
addMemoryRef(memories, ref) ==
    LET i == findIndex(memories, ref.path)
    IN  IF i > 0 THEN [memories EXCEPT ![i] = ref] ELSE Append(memories, ref)

\* submemory.memories.filter((m) => m.path !== memoryPath)
RECURSIVE removeMemoryRef(_, _)
removeMemoryRef(memories, refPath) ==
    IF memories = <<>> THEN <<>>
    ELSE (IF Head(memories).path = refPath THEN <<>> ELSE <<Head(memories)>>)
         \o removeMemoryRef(Tail(memories), refPath)

\* SubmemoryTools.submemoryAddMemory(submemoryPath, memoryPath, summary)
SubmemoryAddMemory(submemoryPath, refPath, summary, w) ==
    LET c0 == EnsureReady(cache["submemory"], disk)
        sub == getSubmemory(c0, submemoryPath)
        r == IF sub = Null THEN Outcome(c0, disk, FALSE)
             ELSE setSubmemory(c0, disk, submemoryPath,
                      [sub EXCEPT !.memories =
                          addMemoryRef(@, MemoryReference(refPath, summary))], w)
    IN  /\ cache' = [cache EXCEPT !["submemory"] = r.c]
        /\ disk' = r.d
        /\ result' = [op |-> "addMemory", tool |-> "submemory", ok |-> r.ok,
                      submemoryPath |-> submemoryPath, memoryPath |-> refPath]
        /\ UNCHANGED <<calls, docs, clock>> /\ indexUnchanged

\* SubmemoryTools.submemoryRemoveMemory(submemoryPath, memoryPath)
SubmemoryRemoveMemory(submemoryPath, refPath, w) ==
    LET c0 == EnsureReady(cache["submemory"], disk)
        sub == getSubmemory(c0, submemoryPath)
        r == IF sub = Null THEN Outcome(c0, disk, FALSE)
             ELSE setSubmemory(c0, disk, submemoryPath,
                      [sub EXCEPT !.memories = removeMemoryRef(@, refPath)], w)
    IN  /\ cache' = [cache EXCEPT !["submemory"] = r.c]
        /\ disk' = r.d
        /\ result' = [op |-> "removeMemory", tool |-> "submemory", ok |-> r.ok,
                      submemoryPath |-> submemoryPath, memoryPath |-> refPath]
        /\ UNCHANGED <<calls, docs, clock>> /\ indexUnchanged

SubsNext ==
    \/ \E sp \in SubPaths, data \in SubData, w \in BOOLEAN :
            SubmemoryCreate(sp, data, w)
    \/ \E sp \in SubPaths, data \in SubData, w \in BOOLEAN :
            SubmemoryUpdate(sp, data, w)
    \/ \E sp \in SubPaths, p \in RefPaths, s \in Summaries, w \in BOOLEAN :
            SubmemoryAddMemory(sp, p, s, w)
    \/ \E sp \in SubPaths, p \in RefPaths, w \in BOOLEAN :
            SubmemoryRemoveMemory(sp, p, w)

SpecSubs == InitCache /\ [][SubsNext]_vars

\* no two references of the list name the same path
DistinctPaths(memories) ==
    \A i, j \in DOMAIN memories : memories[i].path = memories[j].path => i = j

\* C29: after any sequence of submemory create, update, add-memory and
\* remove-memory, no stored submemory holds two memory references with the
\* same path.
C29_MemoryReferencesAreDistinct ==
    \A sp \in SubPaths :
        disk.subs[sp] # NoFile => DistinctPaths(JSONParse(disk.subs[sp]).memories)

----------------------------------------------------------------------------
(* The timestamps of the memory documents *)

\* the frontmatter memory_update is called with: none, tags, and timestamps
\* of the caller's own
StampPartials ==
    Partials({<<<<"a">>>>})
    \cup {[created_at |-> MaxClock + 1], [updated_at |-> 0, created_at |-> MaxClock + 1]}

StampNext ==
    \/ \E c \in Contexts, s \in Subcontexts, t \in Titles :
            MemoryCreate(c, s, t, <<>>)
    \/ \E p \in Paths, fm \in StampPartials : MemoryUpdate(p, fm)
    \/ \E p \in Paths, c \in Contexts, s \in Subcontexts : MemoryMove(p, c, s)
    \/ \E p \in Paths : MemoryDelete(p)
    \/ Tick

SpecStamps == InitCache /\ [][StampNext]_vars

\* C30: after any sequence of memory_create, memory_update and memory_move
\* under a clock that does not go back, every memory document has
\* updated_at >= created_at.
C30_UpdatedNotBeforeCreated ==
    \A p \in Paths :
        Readable(docs[p]) => docs[p].updated_at >= docs[p].created_at

\* an update or a move stamped a document later than its creation
C30_StampedAfterCreation ==
    /\ result.op \in {"update", "move"}
    /\ result.ok
    /\ Readable(docs[result.path])
    /\ docs[result.path].updated_at > docs[result.path].created_at

----------------------------------------------------------------------------
(* MemoryCache: the reads, on a cache that may not have been loaded *)

\* getMainMemory(): throws CacheError("Main memory not loaded") on null
getMainMemory(c) ==
    IF c.mainMemory = Null THEN [ok |-> FALSE, value |-> Null]
    ELSE [ok |-> TRUE, value |-> c.mainMemory]

\* getAllSubmemories(): new Map(this.submemories)
getAllSubmemories(c) == c.submemories

\* what a read returned
ReadResult(op, t, ok, value) ==
    [op |-> op, tool |-> t, ok |-> ok, value |-> value]

GetMainMemory(t) ==
    /\ result' = ReadResult("getMainMemory", t, getMainMemory(cache[t]).ok,
                            getMainMemory(cache[t]).value)
    /\ UNCHANGED <<disk, cache, calls, docs, fts, meta, clock>>

GetLinks(t, context) ==
    /\ result' = ReadResult("getLinks", t, TRUE, getLinks(cache[t], context))
    /\ UNCHANGED <<disk, cache, calls, docs, fts, meta, clock>>

GetSubmemory(t, relativePath) ==
    /\ result' = ReadResult("getSubmemory", t, TRUE,
                            getSubmemory(cache[t], relativePath))
    /\ UNCHANGED <<disk, cache, calls, docs, fts, meta, clock>>

GetAllSubmemories(t) ==
    /\ result' = ReadResult("getAllSubmemories", t, TRUE,
                            getAllSubmemories(cache[t]))
    /\ UNCHANGED <<disk, cache, calls, docs, fts, meta, clock>>

ReadOps == {"getMainMemory", "getLinks", "getSubmemory", "getAllSubmemories"}

ReadsNext ==
    \/ LoadAll("links")
    \/ GetMainMemory("links")
    \/ \E c \in Contexts : GetLinks("links", c)
    \/ \E p \in SubPaths : GetSubmemory("links", p)
    \/ GetAllSubmemories("links")

SpecReads == InitLoad /\ [][ReadsNext]_vars

\* C31: a cache read (get_root, get_links, get_submemory,
\* get_all_submemories) made before load_all() has completed fails with a
\* not-loaded error; it returns no empty or null result.
C31_ReadBeforeLoadFails ==
    (result.op \in ReadOps /\ ~cache[result.tool].isLoaded) => ~result.ok

----------------------------------------------------------------------------
(* MemoryCache.invalidate, with a writer outside the program *)

\* loadLinksForContext: ENOENT is swallowed and the entry stays as it is
loadLinksForContext(c, d, context) ==
    IF d.links[context] = NoFile THEN c
    ELSE [c EXCEPT !.links = Put(@, context, parseCSV(d.links[context].text))]

\* loadSubmemory: every error, ENOENT too, becomes a CacheError
loadSubmemory(c, d, relativePath) ==
    IF d.subs[relativePath] = NoFile THEN [ok |-> FALSE, cache |-> c]
    ELSE [ok |-> TRUE,
          cache |-> [c EXCEPT !.submemories =
                        Put(@, relativePath, JSONParse(d.subs[relativePath]))]]

\* CacheInvalidation: the type, and for links a context, for submemories a
\* path, where the caller gives one
Invalidations ==
    {[type |-> "main"], [type |-> "all"], [type |-> "links"],
     [type |-> "submemories"]}
    \cup {[type |-> "links", context |-> c] : c \in Contexts}
    \cup {[type |-> "submemories", path |-> p] : p \in SubPaths}

\* if (invalidation.context) / if (invalidation.path)
Given(inv, field) == field \in DOMAIN inv

\* MemoryCache.invalidate(invalidation); ok is FALSE where it throws
invalidate(c, d, inv) ==
    CASE inv.type = "main" -> [ok |-> TRUE, cache |-> loadMainMemory(c, d)]
      [] inv.type = "links" /\ Given(inv, "context") ->
            [ok |-> TRUE, cache |-> loadLinksForContext(c, d, inv.context)]
      [] inv.type = "links" /\ ~Given(inv, "context") ->
            [ok |-> TRUE, cache |-> loadAllLinks([c EXCEPT !.links = EmptyMap], d)]
      [] inv.type = "submemories" /\ Given(inv, "path") ->
            loadSubmemory(c, d, inv.path)
      [] inv.type = "submemories" /\ ~Given(inv, "path") ->
            [ok |-> TRUE,
             cache |-> loadAllSubmemories([c EXCEPT !.submemories = EmptyMap], d)]
      [] inv.type = "all" -> [ok |-> TRUE, cache |-> loadAll(c, d)]

Invalidate(t, inv) ==
    LET r == invalidate(cache[t], disk, inv)
    IN  /\ cache' = [cache EXCEPT ![t] = r.cache]
        /\ result' = [op |-> "invalidate", tool |-> t, ok |-> r.ok,
                      invalidation |-> inv]
        /\ UNCHANGED <<disk, calls, docs, fts, meta, clock>>

\* another process deletes a link table or a submemory file
ExternalDelete ==
    /\ \/ \E c \in Contexts :
            /\ disk.links[c] # NoFile
            /\ disk' = [disk EXCEPT !.links[c] = NoFile]
       \/ \E p \in SubPaths :
            /\ disk.subs[p] # NoFile
            /\ disk' = [disk EXCEPT !.subs[p] = NoFile]
    /\ result' = Returned("delete", "external", TRUE)
    /\ UNCHANGED <<cache, calls, docs, fts, meta, clock>>

InvalidateNext ==
    \/ \E c \in LinkContexts, s \in Subcontexts, p \in LinkTargets :
            LinksCreate(c, s, <<"d">>, p, TRUE)
    \/ \E p \in SubPaths : SubmemoryCreate(p, [priority |-> 1], TRUE)
    \/ ExternalDelete
    \/ \E inv \in Invalidations : Invalidate("links", inv)

SpecInvalidate == InitCache /\ [][InvalidateNext]_vars

\* the cache answers for the scope as a cache loaded from the disk now does
ScopeFresh(c, d, inv) ==
    CASE inv.type = "main" -> View(c).root = FreshView(d).root
      [] inv.type = "links" /\ Given(inv, "context") ->
            View(c).links[inv.context] = FreshView(d).links[inv.context]
      [] inv.type = "links" /\ ~Given(inv, "context") ->
            View(c).links = FreshView(d).links
      [] inv.type = "submemories" /\ Given(inv, "path") ->
            View(c).subs[inv.path] = FreshView(d).subs[inv.path]
      [] inv.type = "submemories" /\ ~Given(inv, "path") ->
            View(c).subs = FreshView(d).subs
      [] inv.type = "all" -> View(c) = FreshView(d)

\* C32: after invalidate(scope) returns, the in-memory view of that scope
\* equals what is on disk at that moment, also when another writer has
\* deleted a file that was cached before.
C32_InvalidatedScopeEqualsDisk ==
    (result.op = "invalidate" /\ result.ok)
    => ScopeFresh(cache[result.tool], disk, result.invalidation)

----------------------------------------------------------------------------
(* MemoryCache.updateLink and removeLink called with any index *)

\* the indices tried: one before the first link up to one past the last of
\* a full list
LinkIndices == 0..(MaxLinks + 1)

\* cache.updateLink(context, linkIndex, updatedLink)
UpdateLinkAt(context, linkIndex, updatedLink, w) ==
    LET r == updateLink(cache["links"], disk, context, linkIndex, updatedLink, w)
    IN  /\ cache' = [cache EXCEPT !["links"] = r.c]
        /\ disk' = r.d
        /\ result' = [op |-> "linkAt", call |-> "update", tool |-> "links",
                      ok |-> r.ok, context |-> context, linkIndex |-> linkIndex]
        /\ UNCHANGED <<calls, docs, clock>> /\ indexUnchanged

\* cache.removeLink(context, linkIndex)
RemoveLinkAt(context, linkIndex, w) ==
    LET r == removeLink(cache["links"], disk, context, linkIndex, w)
    IN  /\ cache' = [cache EXCEPT !["links"] = r.c]
        /\ disk' = r.d
        /\ result' = [op |-> "linkAt", call |-> "remove", tool |-> "links",
                      ok |-> r.ok, context |-> context, linkIndex |-> linkIndex]
        /\ UNCHANGED <<calls, docs, clock>> /\ indexUnchanged

LinkIndexNext ==
    \/ \E c \in LinkContexts, s \in Subcontexts, p \in LinkTargets :
            LinksCreate(c, s, <<"d">>, p, TRUE)
    \/ \E c \in Contexts, i \in LinkIndices, s \in Subcontexts, w \in BOOLEAN :
            UpdateLinkAt(c, i, Link(c, s, <<"e">>, <<"p">>), w)
    \/ \E c \in Contexts, i \in LinkIndices, w \in BOOLEAN : RemoveLinkAt(c, i, w)

SpecLinkIndex == InitCache /\ [][LinkIndexNext]_vars

\* the index names no link of the context's list in the cache
inRangeOf(c, context, linkIndex) ==
    linkIndex \in 1..Len(getLinks(c, context))

\* C33: update_link and remove_link called with an index outside the
\* context's link list fail with CacheError and leave the list in memory and
\* the link file as they were.
C33_UnknownIndexFailsUnchanged ==
    [][(/\ result'.op = "linkAt"
        /\ ~inRangeOf(cache["links"], result'.context, result'.linkIndex))
       => (~result'.ok /\ cache' = cache /\ disk' = disk)]_vars

\* a call with the index one past the last link of a list that holds links
C33_RefusedIndexPastEnd ==
    /\ result.op = "linkAt"
    /\ ~result.ok
    /\ getLinks(cache["links"], result.context) # <<>>
    /\ result.linkIndex = Len(getLinks(cache["links"], result.context)) + 1

----------------------------------------------------------------------------
(* The file names generateMemoryFileName gives within one directory *)

MaxCreated == 3      \* documents created in the directory

\* UTF-16 code units of the characters the names of the model are made of
CharCode(ch) ==
    CASE ch = "-" -> 45 [] ch = "." -> 46 [] ch = "a" -> 97 [] ch = "b" -> 98
      [] ch = "d" -> 100 [] ch = "m" -> 109 [] ch = "t" -> 116
      [] OTHER -> 0

\* a < b as JavaScript compares strings
RECURSIVE TextBefore(_, _)
TextBefore(a, b) ==
    IF b = <<>> THEN FALSE
    ELSE IF a = <<>> THEN TRUE
    ELSE IF Head(a) = Head(b) THEN TextBefore(Tail(a), Tail(b))
    ELSE CharCode(Head(a)) < CharCode(Head(b))

\* `${timestamp}-${normalized}.md`: the timestamp has a fixed width, so the
\* names compare by the second first and by what follows it next
FileNameBefore(a, b) ==
    \/ a[1] < b[1]
    \/ /\ a[1] = b[1]
       /\ TextBefore(<<"-">> \o a[2] \o <<".", "m", "d">>,
                     <<"-">> \o b[2] \o <<".", "m", "d">>)

FileTitles == {<<"a">>, <<"b">>, <<"A", "!">>, <<"a", " ", "b">>}

\* the names generated so far, in the order of their creation
Created == IF result.op = "fileName" THEN result.names ELSE <<>>

\* FileSystemUtils.generateMemoryFileName(title) for one more document
GenerateName(title) ==
    /\ Len(Created) < MaxCreated
    /\ result' = [op |-> "fileName", tool |-> "fs", ok |-> TRUE,
                  names |-> Append(Created, generateMemoryFileName(title, clock))]
    /\ UNCHANGED <<disk, cache, calls, docs, fts, meta, clock>>

\* a second passes between two creations
SecondPasses ==
    /\ clock < MaxClock
    /\ clock' = clock + 1
    /\ UNCHANGED <<disk, cache, calls, docs, fts, meta, result>>

FileNamesNext == (\E t \in FileTitles : GenerateName(t)) \/ SecondPasses

SpecFileNames == InitCache /\ [][FileNamesNext]_vars

\* C34: within one directory the file names sort in creation order: the name
\* of a document created before another is lexicographically smaller, for
\* all titles and all creation times.
C34_NamesSortInCreationOrder ==
    \A i, j \in DOMAIN Created :
        i < j => FileNameBefore(Created[i], Created[j])

----------------------------------------------------------------------------
(* The init tool, on a project with and without a memory system *)

\* a check that never finds main.sjson
C35_NeverExists(d) == FALSE

\* FileSystemUtils.memorySystemExists: fs.access of ia-memory/main.sjson
memorySystemExists(d) == d.main # NoFile

\* the contexts of the initial main memory: three defaults (one stands for
\* them), or none under NODE_ENV=test / SKIP_DEFAULT_CONTEXTS
DefaultContexts(createDefaults) ==
    IF createDefaults THEN [n \in {<<"g">>} |-> ContextRec(n, 1)] ELSE EmptyMap

\* init(params): what it leaves on disk and in the index.  The .git/info/
\* exclude it may write lies outside ia-memory.
init(d, ix, ds, now, createDefaults) ==
    IF memorySystemExists(d)
    THEN [new_install |-> FALSE, d |-> d, ix |-> ix]
    ELSE [new_install |-> TRUE,
          d |-> [d EXCEPT !.main =
                    JSONStringify([contexts |-> DefaultContexts(createDefaults),
                                   last_updated |-> now])],
          ix |-> reindexAllOver(ix, ds)]

\* the init tool called for the project; isGit: the project has a .git directory
InitTool(createDefaults, isGit) ==
    LET r == init(disk, Index(fts, meta), docs, clock, createDefaults)
    IN  /\ Cardinality(listFilesWithExtensions(docs)) <= MaxFtsRows
        /\ disk' = r.d
        /\ fts' = r.ix.fts
        /\ meta' = r.ix.meta
        /\ result' = [op |-> "init", tool |-> "init", ok |-> TRUE,
                      new_install |-> r.new_install, git_integrated |-> isGit]
        /\ UNCHANGED <<cache, calls, docs, clock>>

\* a project before its first init, or one initialised already
InitProject ==
    /\ disk \in {InitDisk, [InitDisk EXCEPT !.main = NoFile]}
    /\ cache = [t \in Tools |-> loadAll(NewCache, disk)]
    /\ calls = [k \in CallIds |-> Idle]
    /\ docs = [p \in Paths |-> NoFile]
    /\ fts = EmptyMap
    /\ meta = [p \in Paths |-> Null]
    /\ clock = 0
    /\ result = [op |-> "start", tool |-> "init", ok |-> TRUE]

InitToolNext ==
    \/ \E createDefaults \in BOOLEAN, isGit \in BOOLEAN :
            InitTool(createDefaults, isGit)
    \/ MemoryMainAddContext(<<"c">>, 1, TRUE, TRUE)
    \/ LinksCreate(<<"c">>, <<"s">>, <<"d">>, <<"p">>, TRUE)
    \/ \E p \in SubPaths : SubmemoryCreate(p, [priority |-> 1], TRUE)
    \/ \E t \in Titles : MemoryCreate(<<"c">>, <<"s">>, t, <<>>)

SpecInit == InitProject /\ [][InitToolNext]_vars

\* C35: init on a project whose memory system already exists succeeds,
\* reports that the system already exists, and leaves the root, contexts,
\* links, submemories, documents and index unchanged.
C35_ReinitChangesNothing ==
    [][(result'.op = "init" /\ disk.main # NoFile)
       => /\ result'.ok /\ ~result'.new_install
          /\ disk' = disk /\ docs' = docs /\ fts' = fts /\ meta' = meta
          /\ cache' = cache]_vars

\* init has run on a system that holds a context and an indexed document
C35_ReinitialisedPopulatedSystem ==
    /\ result.op = "init"
    /\ ~result.new_install
    /\ JSONParse(disk.main).contexts # EmptyMap
    /\ fts # EmptyMap

\* C36: between index operations, a path has an entry in the searchable store
\* (memory_index) if and only if it has a row in the metadata store
\* (memory_metadata), also after an indexMemory call that failed part-way.
C36_IndexAndMetadataAgree ==
    \A p \in Paths : (CountFtsPath(fts, p) > 0) <=> (meta[p] # Null)

\* C37: a successful memory_create returns a path no earlier memory_create
\* returned and overwrites no existing document, also for the same context,
\* subcontext and title within one clock second.
C37_CreateNeverOverwrites ==
    [][(result'.op = "create" /\ result'.ok)
       => docs[result'.path] = NoFile]_vars

\* the file holds the document: its title, tags and time of creation
SameDocument(memory, file) ==
    /\ Readable(file)
    /\ file.title = memory.title
    /\ file.tags = memory.tags
    /\ file.created_at = memory.created_at

\* C38: memory_move never loses the document: after it returns or fails the
\* document's content exists at the old path or at the new path, also when
\* the target context and subcontext are the document's current ones.
C38_MoveKeepsDocument ==
    [][(result'.op = "move" /\ Readable(docs[result'.from]))
       => \/ SameDocument(docs[result'.from], docs'[result'.from])
          \/ SameDocument(docs[result'.from], docs'[result'.path])]_vars

\* the links of the context's table on disk
StoredLinks(d, context) ==
    IF context \in DOMAIN d.links /\ d.links[context] # NoFile
    THEN parseCSV(d.links[context].text) ELSE <<>>

\* C39: create_context(name) removes no link already stored for the name:
\* links created under the name before the context was registered are still
\* in the context's link table on disk after create_context succeeds.
C39_AddContextKeepsLinks ==
    [][(result'.op = "addContext" /\ result'.ok)
       => \A i \in DOMAIN StoredLinks(disk, result'.name) :
             \E j \in DOMAIN StoredLinks(disk', result'.name) :
                 StoredLinks(disk', result'.name)[j]
                     = StoredLinks(disk, result'.name)[i]]_vars

----------------------------------------------------------------------------
(* index.ts: the tool objects of the server and the project they were made  *)
(* for.  In this part cache[t] is toolInstances[t] (the memory path it was  *)
(* constructed with, and whether initialize() has run), calls[k] is a tool  *)
(* call in flight, and result holds currentProjectPath.                     *)

Projects == {"P", "Q"}
NoProject == "null"                 \* let currentProjectPath = null

\* toolInstances = {}
NoInstance == [memoryPath |-> NoProject, isLoaded |-> FALSE]

\* new XTools(FileSystemUtils.getMemoryPath(projectPath))
NewInstance(projectPath) == [memoryPath |-> projectPath, isLoaded |-> FALSE]

\* the awaits of ensureToolsInitialized, in their order
InitOrder == <<"mainMemory", "links", "submemory", "memory">>

ServerState(currentProjectPath) ==
    [op |-> "server", tool |-> "index", ok |-> TRUE,
     currentProjectPath |-> currentProjectPath]

NoCall == [pc |-> "idle", project_path |-> NoProject, tool |-> "mainMemory",
           awaiting |-> 0, ranOn |-> NoProject]

\* currentProjectPath !== projectPath || !toolInstances.mainMemory
needsInit(projectPath) ==
    \/ result.currentProjectPath # projectPath
    \/ cache["mainMemory"] = NoInstance

\* a tool call arrives: the handler runs ensureToolsInitialized up to its
\* first await, or past it and into the tool method when nothing is to do
StartCall(k, projectPath, t) ==
    /\ calls[k].pc = "idle"
    /\ IF needsInit(projectPath)
       THEN /\ cache' = [x \in Tools |-> NewInstance(projectPath)]
            /\ calls' = [calls EXCEPT ![k] =
                            [pc |-> "initializing", project_path |-> projectPath,
                             tool |-> t, awaiting |-> 1, ranOn |-> NoProject]]
       ELSE /\ cache' = cache
            /\ calls' = [calls EXCEPT ![k] =
                            [pc |-> "done", project_path |-> projectPath,
                             tool |-> t, awaiting |-> 0,
                             ranOn |-> cache[t].memoryPath]]
    /\ UNCHANGED <<disk, docs, fts, meta, clock, result>>

\* await toolInstances.<tool>.initialize() resolves, and the next one is
\* called on the object toolInstances holds by now
InitializeDone(k) ==
    /\ calls[k].pc = "initializing"
    /\ calls[k].awaiting < Len(InitOrder)
    /\ cache' = [cache EXCEPT ![InitOrder[calls[k].awaiting]].isLoaded = TRUE]
    /\ calls' = [calls EXCEPT ![k].awaiting = @ + 1]
    /\ UNCHANGED <<disk, docs, fts, meta, clock, result>>

\* the last initialize() resolves: currentProjectPath = projectPath, and the
\* handler calls the method of toolInstances.<tool>
RunTool(k) ==
    /\ calls[k].pc = "initializing"
    /\ calls[k].awaiting = Len(InitOrder)
    /\ cache' = [cache EXCEPT ![InitOrder[calls[k].awaiting]].isLoaded = TRUE]
    /\ result' = ServerState(calls[k].project_path)
    /\ calls' = [calls EXCEPT ![k].pc = "done",
                              ![k].ranOn = cache[calls[k].tool].memoryPath]
    /\ UNCHANGED <<disk, docs, fts, meta, clock>>

\* the response is sent
Respond(k) ==
    /\ calls[k].pc = "done"
    /\ calls' = [calls EXCEPT ![k] = NoCall]
    /\ UNCHANGED <<disk, cache, docs, fts, meta, clock, result>>

InitServer ==
    /\ disk = InitDisk
    /\ cache = [t \in Tools |-> NoInstance]
    /\ calls = [k \in CallIds |-> NoCall]
    /\ docs = [p \in Paths |-> NoFile]
    /\ fts = EmptyMap
    /\ meta = [p \in Paths |-> Null]
    /\ clock = 0
    /\ result = ServerState(NoProject)

ServerNext ==
    \/ \E k \in CallIds, p \in Projects, t \in {"mainMemory", "memory"} :
            StartCall(k, p, t)
    \/ \E k \in CallIds : InitializeDone(k)
    \/ \E k \in CallIds : RunTool(k)
    \/ \E k \in CallIds : Respond(k)

SpecServer == InitServer /\ [][ServerNext]_vars

\* C40: a tool call issued for project path P is executed against P's memory
\* directory, also when calls for two project paths overlap while the tool
\* objects are being initialised.
C40_CallRunsOnItsProject ==
    \A k \in CallIds :
        calls[k].pc = "done" => calls[k].ranOn = calls[k].project_path

====
